---- MODULE Spec2Model ----
(***************************************************************************)
(* Batch squashing and memory-aware balancing (Interpreters/Squashing-     *)
(* Transform): the eager SquashingTransform, the lazy BalanceTransform /   *)
(* BalanceBlockTransform with their memory wait loop, and the deferred     *)
(* NewSquashingTransform / NewSquashingBlockTransform.                     *)
(***************************************************************************)
EXTENDS Integers, Sequences, FiniteSets, TLC

(* ------------------------------ bounds --------------------------------- *)
\* columns of every block of the stream (one schema per stream)
NumColumns == 2
\* largest number of rows of one input block
MaxRows == 2
\* largest number of non-empty add calls before the end-of-stream block
MaxInputs == 3
\* min_block_size_rows is drawn from 0..MaxMinRows
MaxMinRows == 3
\* min_block_size_bytes is drawn from {0, MaxMinBytes}
MaxMinBytes == 5
\* the memory tracker's hard limit is drawn from {0, 1, MaxHardLimit}
MaxHardLimit == 4
\* the memory tracker's amount is drawn from 0..MaxUsage
MaxUsage == 1

VARIABLES
    min_block_size_rows,    \* threshold, fixed at construction
    min_block_size_bytes,   \* threshold, fixed at construction
    accumulated_block,      \* SquashingTransform::accumulated_block
    sq_input,               \* blocks passed to SquashingTransform::add so far
    sq_returned,            \* what each of those calls returned
    sq_outcome,             \* how each of those calls ended: "returned",
                            \* "thrown" (exception) or "aborted" (failed assert)
    variant,                \* "Chunk": BalanceTransform + NewSquashingTransform,
                            \* "Block": BalanceBlockTransform + NewSquashingBlockTransform
    memory_tracker,         \* the member memory_tracker: "set" by the constructor
                            \* or "unset" (the thread had no memory tracker)
    hard_limit,             \* memory_tracker->getHardLimit()
    usage,                  \* memory_tracker->get()
    chunks_to_merge_vec,    \* BalanceTransform::chunks_to_merge_vec
    blocks_to_merge_vec,    \* BalanceBlockTransform::blocks_to_merge_vec
    data_types,             \* BalanceTransform::data_types
    bal_pc,                 \* where the running Balance*Transform::add call is
    bal_input,              \* blocks passed to Balance*Transform::add so far
    bal_returned,           \* what each completed call returned
    nsq_accumulated_block,  \* NewSquashing*Transform::accumulated_block
    nsq_returned,           \* what NewSquashing*Transform::add returned per chunk
    nsq_outcome             \* how each of those calls ended: "returned" or
                            \* "crashed" (the process was killed)

vars == <<min_block_size_rows, min_block_size_bytes, accumulated_block, sq_input,
          sq_returned, sq_outcome, variant, memory_tracker, hard_limit, usage,
          chunks_to_merge_vec, blocks_to_merge_vec, data_types, bal_pc, bal_input,
          bal_returned, nsq_accumulated_block, nsq_returned, nsq_outcome>>

sq_vars == <<accumulated_block, sq_input, sq_returned, sq_outcome>>

bal_vars == <<variant, memory_tracker, hard_limit, usage, chunks_to_merge_vec,
              blocks_to_merge_vec, data_types, bal_pc, bal_input, bal_returned,
              nsq_accumulated_block, nsq_returned, nsq_outcome>>

(* --------------------------- columns, blocks --------------------------- *)
Last(s) == s[Len(s)]

RECURSIVE SumSeq(_)
SumSeq(s) == IF s = <<>> THEN 0 ELSE s[1] + SumSeq(Tail(s))

RECURSIVE Flatten(_)
Flatten(ss) == IF ss = <<>> THEN <<>> ELSE ss[1] \o Flatten(Tail(ss))

\* An IColumn: the width in bytes of one of its (fixed-width) values, the
\* buffer that stores it, and its values.  A value <<c, i>> is the value of
\* column c in the i-th row of the stream.
IColumn_size(column) == Len(column.vals)

IColumn_byteSize(column) == Len(column.vals) * column.width

\* IColumn::mutate of the uniquely owned destination, then
\* insertRangeFrom(source, 0, source.size()): the source's values follow the
\* destination's, in the destination's buffer
IColumn_insertRangeFrom(column, source) ==
    [column EXCEPT !.vals = @ \o source.vals]

\* A Block is its sequence of ColumnWithTypeAndName [column, type, name];
\* the block without columns is the end-of-stream block.
EmptyBlock == <<>>

Block_bool(block) == block # <<>>

Block_columns(block) == Len(block)

Block_rows(block) == IF block = <<>> THEN 0 ELSE IColumn_size(block[1].column)

Block_bytes(block) ==
    SumSeq([i \in 1..Len(block) |-> IColumn_byteSize(block[i].column)])

Block_getColumns(block) == [i \in 1..Len(block) |-> block[i].column]

Block_getDataTypes(block) == [i \in 1..Len(block) |-> block[i].type]

\* the values of column c of a block (nothing when the block has no column c)
ColumnVals(block, c) == IF c \in 1..Len(block) THEN block[c].column.vals ELSE <<>>

\* the values of column c over a sequence of blocks, in order
ConcatColumn(blocks, c) ==
    Flatten([k \in 1..Len(blocks) |-> ColumnVals(blocks[k], c)])

TypeName(c) == "UInt" \o ToString(8 * c)

\* the k-th block of a stream: n rows following the `before` rows already
\* sent, in freshly allocated buffers; column c holds c-byte integers
MakeBlock(k, before, n) ==
    [c \in 1..NumColumns |->
        [column |-> [width |-> c, buf |-> <<k, c>>,
                     vals |-> [j \in 1..n |-> <<c, before + j>>]],
         type |-> TypeName(c),
         name |-> "c" \o ToString(c)]]

\* a block of a stream whose column c holds sizes[c] values: a block with
\* another number of columns than MakeBlock's, or with columns of unequal
\* sizes
MakeColumns(k, before, sizes) ==
    [c \in 1..Len(sizes) |->
        [column |-> [width |-> c, buf |-> <<k, c>>,
                     vals |-> [j \in 1..sizes[c] |-> <<c, before + j>>]],
         type |-> TypeName(c),
         name |-> "c" \o ToString(c)]]

\* blocksHaveEqualStructure: the same number of columns, with the same
\* types and names position by position
blocksHaveEqualStructure(lhs, rhs) ==
    /\ Block_columns(lhs) = Block_columns(rhs)
    /\ \A i \in 1..Block_columns(lhs) :
          lhs[i].type = rhs[i].type /\ lhs[i].name = rhs[i].name

TotalRows(blocks) == SumSeq([k \in 1..Len(blocks) |-> Block_rows(blocks[k])])

(* --------------------------- threshold policy -------------------------- *)
\* mutant: two zero minimums are not treated as "squashing disabled"
SquashingTransform_isEnoughSize_noPassThrough(rows, bytes) ==
    \/ (min_block_size_rows # 0 /\ rows >= min_block_size_rows)
    \/ (min_block_size_bytes # 0 /\ bytes >= min_block_size_bytes)

\* mutant: a minimum is reached only when it is exceeded
SquashingTransform_isEnoughSize_strict(rows, bytes) ==
    \/ (min_block_size_rows = 0 /\ min_block_size_bytes = 0)
    \/ (min_block_size_rows # 0 /\ rows > min_block_size_rows)
    \/ (min_block_size_bytes # 0 /\ bytes > min_block_size_bytes)

SquashingTransform_isEnoughSize(rows, bytes) ==
    \/ (min_block_size_rows = 0 /\ min_block_size_bytes = 0)
    \/ (min_block_size_rows # 0 /\ rows >= min_block_size_rows)
    \/ (min_block_size_bytes # 0 /\ bytes >= min_block_size_bytes)

\* The loop of isEnoughSize(const Block &): rows is taken from the first
\* column of non-zero size, a later column of another size throws.
RECURSIVE BlockSizes(_, _, _, _)
BlockSizes(block, i, rows, bytes) ==
    IF i > Len(block)
    THEN [threw |-> FALSE, rows |-> rows, bytes |-> bytes]
    ELSE IF rows = 0
         THEN BlockSizes(block, i + 1, IColumn_size(block[i].column),
                         bytes + IColumn_byteSize(block[i].column))
         ELSE IF rows # IColumn_size(block[i].column)
              THEN [threw |-> TRUE, rows |-> rows, bytes |-> bytes]
              ELSE BlockSizes(block, i + 1, rows,
                              bytes + IColumn_byteSize(block[i].column))

\* mutant: the rows counted by the loop are not passed on
SquashingTransform_isEnoughSizeBlock_bytesOnly(block) ==
    LET s == BlockSizes(block, 1, 0, 0)
    IN  [threw |-> s.threw,
         enough |-> ~s.threw /\ SquashingTransform_isEnoughSize(0, s.bytes)]

SquashingTransform_isEnoughSizeBlock(block) ==
    LET s == BlockSizes(block, 1, 0, 0)
    IN  [threw |-> s.threw,
         enough |-> ~s.threw /\ SquashingTransform_isEnoughSize(s.rows, s.bytes)]

(* ----------------------- SquashingTransform (eager) -------------------- *)
\* mutant: the incoming values are inserted before the accumulated ones
SquashingTransform_append_prepend(accumulated, input_block) ==
    IF ~Block_bool(accumulated)
    THEN input_block
    ELSE [i \in 1..Block_columns(accumulated) |->
            [accumulated[i] EXCEPT
                !.column = IColumn_insertRangeFrom(input_block[i].column, @)]]

SquashingTransform_append(accumulated, input_block) ==
    IF ~Block_bool(accumulated)
    THEN input_block
    ELSE [i \in 1..Block_columns(accumulated) |->
            [accumulated[i] EXCEPT
                !.column = IColumn_insertRangeFrom(@, input_block[i].column)]]

\* Every branch of addImpl gives the block returned, the buffer left behind,
\* and whether SIZES_OF_COLUMNS_DOESNT_MATCH was thrown (then nothing is
\* returned).
Returned(ret, acc) == [ret |-> ret, acc |-> acc, threw |-> FALSE]

Thrown(acc) == [ret |-> EmptyBlock, acc |-> acc, threw |-> TRUE]

\* mutant: the accumulated block is returned as a copy and kept
SquashingTransform_addImpl_endOfStream_keep(accumulated) ==
    Returned(accumulated, accumulated)

\* lines 39-45: end of input stream
SquashingTransform_addImpl_endOfStream(accumulated) ==
    Returned(accumulated, EmptyBlock)

\* mutant: the block that is enough is kept even when nothing is accumulated
SquashingTransform_addImpl_inputEnough_store(accumulated, input_block) ==
    Returned(accumulated, input_block)

\* mutant: the test of the accumulated block is inverted
SquashingTransform_addImpl_inputEnough_inverted(accumulated, input_block) ==
    IF Block_bool(accumulated)
    THEN Returned(input_block, accumulated)
    ELSE Returned(accumulated, input_block)

\* lines 47-60: just read block is already enough
SquashingTransform_addImpl_inputEnough(accumulated, input_block) ==
    IF ~Block_bool(accumulated)
    THEN Returned(input_block, accumulated)
    ELSE Returned(accumulated, input_block)

\* mutant: the incoming block is appended to the accumulated one
SquashingTransform_addImpl_accumulatedEnough_merge(accumulated, input_block) ==
    Returned(EmptyBlock, SquashingTransform_append(accumulated, input_block))

\* mutant: the accumulated block is returned and the incoming one dropped
SquashingTransform_addImpl_accumulatedEnough_drop(accumulated, input_block) ==
    Returned(accumulated, EmptyBlock)

\* lines 62-69: accumulated block is already enough
SquashingTransform_addImpl_accumulatedEnough(accumulated, input_block) ==
    Returned(accumulated, input_block)

\* mutant: the appended block is returned without the size test
SquashingTransform_addImpl_append_always(accumulated, input_block) ==
    Returned(SquashingTransform_append(accumulated, input_block), EmptyBlock)

\* lines 71-80: append, and return the squashed block when it is ready
SquashingTransform_addImpl_append(accumulated, input_block) ==
    LET appended == SquashingTransform_append(accumulated, input_block)
        app_size == SquashingTransform_isEnoughSizeBlock(appended)
    IN  IF app_size.threw
        THEN Thrown(appended)
        ELSE IF app_size.enough
        THEN Returned(appended, EmptyBlock)
        ELSE Returned(EmptyBlock, appended)

\* one call of addImpl on the buffer `accumulated`
SquashingTransform_addImpl(accumulated, input_block) ==
    LET in_size == SquashingTransform_isEnoughSizeBlock(input_block)
        acc_size == SquashingTransform_isEnoughSizeBlock(accumulated)
    IN  IF ~Block_bool(input_block)
        THEN SquashingTransform_addImpl_endOfStream(accumulated)
        ELSE IF in_size.threw
        THEN Thrown(accumulated)
        ELSE IF in_size.enough
        THEN SquashingTransform_addImpl_inputEnough(accumulated, input_block)
        ELSE IF acc_size.threw
        THEN Thrown(accumulated)
        ELSE IF acc_size.enough
        THEN SquashingTransform_addImpl_accumulatedEnough(accumulated, input_block)
        ELSE SquashingTransform_addImpl_append(accumulated, input_block)

\* a SquashingTransform fed the blocks of `input` from the i-th on: the
\* blocks its calls return, then its buffer
RECURSIVE SquashingTransform_run(_, _, _, _)
SquashingTransform_run(accumulated, returned, input, i) ==
    IF i > Len(input)
    THEN [acc |-> accumulated, returned |-> returned]
    ELSE LET r == SquashingTransform_addImpl(accumulated, input[i])
         IN  SquashingTransform_run(r.acc, Append(returned, r.ret), input, i + 1)

\* the stream is over once the end-of-stream block has been passed
Finished(input) == input # <<>> /\ ~Block_bool(Last(input))

\* the blocks a caller may pass next: up to MaxRows rows, or end of stream
NextBlocks(input) ==
    {MakeBlock(Len(input) + 1, TotalRows(input), n) :
        n \in IF Len(input) < MaxInputs THEN 0..MaxRows ELSE {}}
    \cup {EmptyBlock}

\* a failed assert has ended the process
Aborted == \E k \in 1..Len(sq_outcome) : sq_outcome[k] = "aborted"

\* a call of add: what addImpl returns and leaves, or the exception it throws
\* (nothing is returned then)
SquashingTransform_add(input_block) ==
    LET r == SquashingTransform_addImpl(accumulated_block, input_block)
    IN  /\ ~Finished(sq_input)
        /\ ~Aborted
        /\ sq_input' = Append(sq_input, input_block)
        /\ accumulated_block' = r.acc
        /\ sq_returned' = Append(sq_returned, r.ret)
        /\ sq_outcome' = Append(sq_outcome, IF r.threw THEN "thrown" ELSE "returned")
        /\ UNCHANGED <<min_block_size_rows, min_block_size_bytes>>
        /\ UNCHANGED bal_vars

\* addImpl comes to line 71 and append to its assert: neither the input nor
\* the accumulated block is enough, and the accumulated block has columns
SquashingTransform_append_reachesAssert(accumulated, input_block) ==
    LET in_size == SquashingTransform_isEnoughSizeBlock(input_block)
        acc_size == SquashingTransform_isEnoughSizeBlock(accumulated)
    IN  /\ Block_bool(input_block)
        /\ ~in_size.threw /\ ~in_size.enough
        /\ ~acc_size.threw /\ ~acc_size.enough
        /\ Block_bool(accumulated)

\* line 92, `assert(blocksHaveEqualStructure(input_block, accumulated_block))`:
\* a build with assertions aborts on a block of another structure; a build
\* without them (NDEBUG) goes on, which is SquashingTransform_add
SquashingTransform_add_assertFails(input_block) ==
    /\ ~Finished(sq_input)
    /\ ~Aborted
    /\ SquashingTransform_append_reachesAssert(accumulated_block, input_block)
    /\ ~blocksHaveEqualStructure(input_block, accumulated_block)
    /\ sq_input' = Append(sq_input, input_block)
    /\ sq_returned' = Append(sq_returned, EmptyBlock)
    /\ sq_outcome' = Append(sq_outcome, "aborted")
    /\ UNCHANGED <<min_block_size_rows, min_block_size_bytes, accumulated_block>>
    /\ UNCHANGED bal_vars

\* the rows sent so far, a block counted with its longest column
RowsSent(blocks) ==
    SumSeq([k \in 1..Len(blocks) |->
        IF blocks[k] = <<>> THEN 0
        ELSE CHOOSE n \in {IColumn_size(blocks[k][i].column) : i \in DOMAIN blocks[k]} :
                 \A i \in DOMAIN blocks[k] : IColumn_size(blocks[k][i].column) <= n])

\* the columns of a block do not all have the same number of values
Ragged(block) ==
    \E i, j \in DOMAIN block : IColumn_size(block[i].column) # IColumn_size(block[j].column)

\* the blocks a caller that does not keep to one well-formed schema may pass
\* next: blocks of NumColumns columns, at most one of them with columns of
\* unequal sizes, then blocks with one more column (a block with fewer
\* columns than the accumulated one is left out: append would read past the
\* end of its columns), or end of stream
MalformedBlocks(input) ==
    LET k == Len(input) + 1
        before == RowsSent(input)
        more == Len(input) < MaxInputs
        wide == \E i \in DOMAIN input : Block_columns(input[i]) > NumColumns
        ragged == \E i \in DOMAIN input : Ragged(input[i])
    IN  {MakeBlock(k, before, n) : n \in IF more /\ ~wide THEN 0..MaxRows ELSE {}}
        \cup {MakeColumns(k, before, sizes) :
                sizes \in IF more /\ ~wide /\ ~ragged
                          THEN {q \in [1..NumColumns -> 0..MaxRows] :
                                   \E i, j \in 1..NumColumns : q[i] # q[j]}
                          ELSE {}}
        \cup {MakeColumns(k, before, [c \in 1..(NumColumns + 1) |-> n]) :
                n \in IF more THEN 0..MaxRows ELSE {}}
        \cup {EmptyBlock}

(* -------------------------------- chunks ------------------------------- *)
\* A Chunk: its columns (IColumns, no types or names), its number of rows and
\* its ChunkInfo.  The info of a chunk to squash is ChunksToSquash (the chunks
\* and the data types) or BlocksToSquash (the blocks).
NoInfo == [kind |-> "none", list |-> <<>>, data_types |-> <<>>]

Chunk(columns, num_rows, info) ==
    [columns |-> columns, num_rows |-> num_rows, info |-> info]

EmptyChunk == Chunk(<<>>, 0, NoInfo)

Chunk_bool(chunk) == chunk.columns # <<>> \/ chunk.num_rows # 0

Chunk_hasChunkInfo(chunk) == chunk.info.kind # "none"

Chunk_getNumColumns(chunk) == Len(chunk.columns)

Chunk_bytes(chunk) ==
    SumSeq([i \in 1..Len(chunk.columns) |-> IColumn_byteSize(chunk.columns[i])])

\* Chunk::clone(): the same columns and rows, sharing the column buffers
Chunk_clone(chunk) == chunk

\* the constructor's header: the columns of the stream, with no rows
Header == MakeBlock(0, 0, 0)

(* --------------------------- memory admission -------------------------- *)
\* `const auto hard_limit = memory_tracker->getHardLimit() != 0`: the local
\* hard_limit is the bool of the comparison, used as a number afterwards
\* mutant: the comparison with 0 is inverted
BalanceTransform_hardLimitLocal_inverted(limit) == IF limit = 0 THEN 1 ELSE 0

BalanceTransform_hardLimitLocal(limit) == IF limit # 0 THEN 1 ELSE 0

\* one evaluation of the wait loop of checkAndWaitMemoryAvailability(bytes)
\* against the tracker's amount: TRUE when the call goes on (no limit, or
\* bytes >= free_memory is false), FALSE when it reads the amount again
\* mutant: the loop condition is inverted
BalanceTransform_memoryAvailable_inverted(bytes, limit, amount) ==
    LET local == IF limit # 0 THEN 1 ELSE 0
        free_memory == local - amount
    IN  local = 0 \/ bytes >= free_memory

BalanceTransform_memoryAvailable(bytes, limit, amount) ==
    LET local == BalanceTransform_hardLimitLocal(limit)
        free_memory == local - amount
    IN  local = 0 \/ ~(bytes >= free_memory)

BalanceBlockTransform_hardLimitLocal(limit) == IF limit # 0 THEN 1 ELSE 0

BalanceBlockTransform_memoryAvailable(bytes, limit, amount) ==
    LET local == BalanceBlockTransform_hardLimitLocal(limit)
        free_memory == local - amount
    IN  local = 0 \/ ~(bytes >= free_memory)

(* ----------------------- BalanceTransform (chunks) --------------------- *)
\* mutant: two zero minimums are not treated as "squashing disabled"
BalanceTransform_isEnoughSize_noPassThrough(rows, bytes) ==
    \/ (min_block_size_rows # 0 /\ rows >= min_block_size_rows)
    \/ (min_block_size_bytes # 0 /\ bytes >= min_block_size_bytes)

BalanceTransform_isEnoughSize(rows, bytes) ==
    \/ (min_block_size_rows = 0 /\ min_block_size_bytes = 0)
    \/ (min_block_size_rows # 0 /\ rows >= min_block_size_rows)
    \/ (min_block_size_bytes # 0 /\ bytes >= min_block_size_bytes)

ChunksRows(chunks) == SumSeq([k \in 1..Len(chunks) |-> chunks[k].num_rows])

ChunksBytes(chunks) == SumSeq([k \in 1..Len(chunks) |-> Chunk_bytes(chunks[k])])

\* isEnoughSize(const std::vector<Chunk> &), once the wait loop has let it go on
BalanceTransform_isEnoughSizeChunks(chunks) ==
    BalanceTransform_isEnoughSize(ChunksRows(chunks), ChunksBytes(chunks))

\* mutant: the chunks are put in the info last first
BalanceTransform_convertToChunk_reversed(chunks, types) ==
    IF chunks = <<>>
    THEN EmptyChunk
    ELSE Chunk(Block_getColumns(Header), 0,
               [kind |-> "ChunksToSquash",
                list |-> [k \in 1..Len(chunks) |->
                            Chunk_clone(chunks[Len(chunks) + 1 - k])],
                data_types |-> types])

\* the chunk convertToChunk returns
BalanceTransform_convertToChunk(chunks, types) ==
    IF chunks = <<>>
    THEN EmptyChunk
    ELSE Chunk(Block_getColumns(Header), 0,
               [kind |-> "ChunksToSquash",
                list |-> [k \in 1..Len(chunks) |-> Chunk_clone(chunks[k])],
                data_types |-> types])

\* mutant: convertToChunk leaves the chunks in the vector
BalanceTransform_convertToChunk_clear_missing(chunks) == chunks

\* mutant: convertToChunk leaves the last chunk in the vector
BalanceTransform_convertToChunk_clear_keepLast(chunks) ==
    IF chunks = <<>> THEN <<>> ELSE <<Last(chunks)>>

\* `chunks.clear()` at the end of convertToChunk: the vector it leaves
BalanceTransform_convertToChunk_clear(chunks) == <<>>

\* `bool isDataLeft() { return !chunks_to_merge_vec.empty(); }`
BalanceTransform_isDataLeft == chunks_to_merge_vec # <<>>

\* `Chunk input_chunk(input_block.getColumns(), input_block.rows())`
InputChunk(input_block) ==
    Chunk(Block_getColumns(input_block), Block_rows(input_block), NoInfo)

\* mutant: the vector is cleared when it is not yet enough
BalanceTransform_pushBack_inverted(chunks, input_chunk) ==
    Append(IF ~BalanceTransform_isEnoughSizeChunks(chunks) THEN <<>> ELSE chunks,
           Chunk_clone(input_chunk))

\* the vector after `if (isEnoughSize(vec)) vec.clear();` and the push_back
BalanceTransform_pushBack(chunks, input_chunk) ==
    Append(IF BalanceTransform_isEnoughSizeChunks(chunks) THEN <<>> ELSE chunks,
           Chunk_clone(input_chunk))

\* mutant: the vector is converted without the size test
BalanceTransform_result_always(chunks, types, input_chunk) ==
    BalanceTransform_convertToChunk(chunks, types)

\* the value returned after the second isEnoughSize
BalanceTransform_result(chunks, types, input_chunk) ==
    IF BalanceTransform_isEnoughSizeChunks(chunks)
    THEN BalanceTransform_convertToChunk(chunks, types)
    ELSE input_chunk

(* -------------------- BalanceBlockTransform (blocks) ------------------- *)
\* mutant: a minimum is reached only when it is exceeded
BalanceBlockTransform_isEnoughSize_strict(rows, bytes) ==
    \/ (min_block_size_rows = 0 /\ min_block_size_bytes = 0)
    \/ (min_block_size_rows # 0 /\ rows > min_block_size_rows)
    \/ (min_block_size_bytes # 0 /\ bytes > min_block_size_bytes)

BalanceBlockTransform_isEnoughSize(rows, bytes) ==
    \/ (min_block_size_rows = 0 /\ min_block_size_bytes = 0)
    \/ (min_block_size_rows # 0 /\ rows >= min_block_size_rows)
    \/ (min_block_size_bytes # 0 /\ bytes >= min_block_size_bytes)

BlocksRows(blocks) == SumSeq([k \in 1..Len(blocks) |-> Block_rows(blocks[k])])

BlocksBytes(blocks) == SumSeq([k \in 1..Len(blocks) |-> Block_bytes(blocks[k])])

BalanceBlockTransform_isEnoughSizeBlocks(blocks) ==
    BalanceBlockTransform_isEnoughSize(BlocksRows(blocks), BlocksBytes(blocks))

\* mutant: an empty vector is converted like any other
BalanceBlockTransform_convertToChunk_noEmptyTest(blocks) ==
    Chunk(Block_getColumns(Header), 0,
          [kind |-> "BlocksToSquash", list |-> blocks, data_types |-> <<>>])

BalanceBlockTransform_convertToChunk(blocks) ==
    IF blocks = <<>>
    THEN EmptyChunk
    ELSE Chunk(Block_getColumns(Header), 0,
               [kind |-> "BlocksToSquash", list |-> blocks, data_types |-> <<>>])

\* mutant: convertToChunk leaves the moved-from blocks in the vector
BalanceBlockTransform_convertToChunk_clear_missing(blocks) == blocks

\* `blocks.clear()` at the end of convertToChunk: the vector it leaves
BalanceBlockTransform_convertToChunk_clear(blocks) == <<>>

\* `bool isDataLeft() { return !blocks_to_merge_vec.empty(); }`
BalanceBlockTransform_isDataLeft == blocks_to_merge_vec # <<>>

\* mutant: the block is put in front of the vector
BalanceBlockTransform_pushBack_front(blocks, input_block) ==
    <<input_block>> \o
        (IF BalanceBlockTransform_isEnoughSizeBlocks(blocks) THEN <<>> ELSE blocks)

BalanceBlockTransform_pushBack(blocks, input_block) ==
    Append(IF BalanceBlockTransform_isEnoughSizeBlocks(blocks) THEN <<>> ELSE blocks,
           input_block)

\* mutant: an empty chunk is returned when the vector is not enough
BalanceBlockTransform_result_empty(blocks, input_chunk) ==
    IF BalanceBlockTransform_isEnoughSizeBlocks(blocks)
    THEN BalanceBlockTransform_convertToChunk(blocks)
    ELSE EmptyChunk

BalanceBlockTransform_result(blocks, input_chunk) ==
    IF BalanceBlockTransform_isEnoughSizeBlocks(blocks)
    THEN BalanceBlockTransform_convertToChunk(blocks)
    ELSE input_chunk

\* a BalanceTransform fed the blocks of `input` from the i-th on, each call
\* running to its end: the chunks its calls return, then its vector and its
\* data types
RECURSIVE BalanceTransform_run(_, _, _, _, _)
BalanceTransform_run(chunks, types, returned, input, i) ==
    IF i > Len(input)
    THEN [vec |-> chunks, returned |-> returned, data_types |-> types]
    ELSE LET input_chunk == InputChunk(input[i])
             new_types == IF Block_getDataTypes(input[i]) # <<>>
                          THEN Block_getDataTypes(input[i])
                          ELSE types
             pushed == BalanceTransform_pushBack(chunks, input_chunk)
         IN  IF ~Chunk_bool(input_chunk)
             THEN BalanceTransform_run(
                     BalanceTransform_convertToChunk_clear(chunks), new_types,
                     Append(returned, BalanceTransform_convertToChunk(chunks, new_types)),
                     input, i + 1)
             ELSE BalanceTransform_run(
                     IF BalanceTransform_isEnoughSizeChunks(pushed)
                     THEN BalanceTransform_convertToChunk_clear(pushed)
                     ELSE pushed,
                     new_types,
                     Append(returned,
                            BalanceTransform_result(pushed, new_types, input_chunk)),
                     input, i + 1)

\* the same for a BalanceBlockTransform
RECURSIVE BalanceBlockTransform_run(_, _, _, _)
BalanceBlockTransform_run(blocks, returned, input, i) ==
    IF i > Len(input)
    THEN [vec |-> blocks, returned |-> returned]
    ELSE LET input_chunk == InputChunk(input[i])
             pushed == BalanceBlockTransform_pushBack(blocks, input[i])
         IN  IF ~Chunk_bool(input_chunk)
             THEN BalanceBlockTransform_run(
                     BalanceBlockTransform_convertToChunk_clear(blocks),
                     Append(returned, BalanceBlockTransform_convertToChunk(blocks)),
                     input, i + 1)
             ELSE BalanceBlockTransform_run(
                     IF BalanceBlockTransform_isEnoughSizeBlocks(pushed)
                     THEN BalanceBlockTransform_convertToChunk_clear(pushed)
                     ELSE pushed,
                     Append(returned,
                            BalanceBlockTransform_result(pushed, input_chunk)),
                     input, i + 1)

\* the running call is in the wait loop of the isEnoughSize before the
\* push_back ("check1": before its first evaluation, "wait1": it has found
\* the memory not available at least once) or of the one after it
InFirstWait == bal_pc \in {"check1", "wait1"}

InSecondWait == bal_pc \in {"check2", "wait2"}

WaitPc == IF InFirstWait THEN "wait1" ELSE "wait2"

\* lines 238-245: the input chunk and the data types; the end-of-stream block
\* returns at once, any other block goes to the first isEnoughSize
BalanceTransform_add(input_block) ==
    LET types == IF Block_getDataTypes(input_block) # <<>>
                 THEN Block_getDataTypes(input_block)
                 ELSE data_types
    IN  /\ variant = "Chunk"
        /\ bal_pc = "idle"
        /\ ~Finished(bal_input)
        /\ bal_input' = Append(bal_input, input_block)
        /\ data_types' = types
        /\ IF ~Chunk_bool(InputChunk(input_block))
           THEN /\ bal_returned' = Append(bal_returned,
                        BalanceTransform_convertToChunk(chunks_to_merge_vec, types))
                /\ chunks_to_merge_vec' =
                        BalanceTransform_convertToChunk_clear(chunks_to_merge_vec)
                /\ bal_pc' = "idle"
           ELSE /\ bal_pc' = "check1"
                /\ UNCHANGED <<bal_returned, chunks_to_merge_vec>>
        /\ UNCHANGED <<min_block_size_rows, min_block_size_bytes, variant, memory_tracker,
                   hard_limit,
                       usage, blocks_to_merge_vec, nsq_accumulated_block, nsq_returned,
                   nsq_outcome>>
        /\ UNCHANGED sq_vars

\* lines 282-283: bytes >= free_memory, the amount is read again
BalanceTransform_checkAndWaitMemoryAvailability ==
    /\ variant = "Chunk"
    /\ InFirstWait \/ InSecondWait
    /\ ~BalanceTransform_memoryAvailable(ChunksBytes(chunks_to_merge_vec),
                                         hard_limit, usage)
    /\ bal_pc' = WaitPc
    /\ UNCHANGED <<min_block_size_rows, min_block_size_bytes, variant, memory_tracker,
                   hard_limit,
                   usage, chunks_to_merge_vec, blocks_to_merge_vec, data_types,
                   bal_input, bal_returned, nsq_accumulated_block, nsq_returned,
                   nsq_outcome>>
    /\ UNCHANGED sq_vars

\* lines 247-251: the first isEnoughSize goes on, the vector is cleared when
\* it is enough, and the input chunk is pushed
BalanceTransform_addImpl_push ==
    /\ variant = "Chunk"
    /\ InFirstWait
    /\ BalanceTransform_memoryAvailable(ChunksBytes(chunks_to_merge_vec),
                                        hard_limit, usage)
    /\ chunks_to_merge_vec' =
          BalanceTransform_pushBack(chunks_to_merge_vec, InputChunk(Last(bal_input)))
    /\ bal_pc' = "check2"
    /\ UNCHANGED <<min_block_size_rows, min_block_size_bytes, variant, memory_tracker,
                   hard_limit,
                   usage, blocks_to_merge_vec, data_types, bal_input, bal_returned,
                   nsq_accumulated_block, nsq_returned,
                   nsq_outcome>>
    /\ UNCHANGED sq_vars

\* lines 253-258: the second isEnoughSize goes on and the call returns
BalanceTransform_addImpl_return ==
    /\ variant = "Chunk"
    /\ InSecondWait
    /\ BalanceTransform_memoryAvailable(ChunksBytes(chunks_to_merge_vec),
                                        hard_limit, usage)
    /\ bal_returned' = Append(bal_returned,
          BalanceTransform_result(chunks_to_merge_vec, data_types,
                                  InputChunk(Last(bal_input))))
    /\ chunks_to_merge_vec' =
          IF BalanceTransform_isEnoughSizeChunks(chunks_to_merge_vec)
          THEN BalanceTransform_convertToChunk_clear(chunks_to_merge_vec)
          ELSE chunks_to_merge_vec
    /\ bal_pc' = "idle"
    /\ UNCHANGED <<min_block_size_rows, min_block_size_bytes, variant, memory_tracker,
                   hard_limit,
                   usage, blocks_to_merge_vec, data_types, bal_input,
                   nsq_accumulated_block, nsq_returned,
                   nsq_outcome>>
    /\ UNCHANGED sq_vars

\* mutant: the end-of-stream block waits for memory too
BalanceBlockTransform_add_gated(input_block) ==
    /\ variant = "Block"
    /\ bal_pc = "idle"
    /\ ~Finished(bal_input)
    /\ bal_input' = Append(bal_input, input_block)
    /\ IF ~Chunk_bool(InputChunk(input_block))
       THEN /\ BalanceBlockTransform_memoryAvailable(BlocksBytes(blocks_to_merge_vec),
                                                     hard_limit, usage)
            /\ bal_returned' = Append(bal_returned,
                    BalanceBlockTransform_convertToChunk(blocks_to_merge_vec))
            /\ blocks_to_merge_vec' =
                    BalanceBlockTransform_convertToChunk_clear(blocks_to_merge_vec)
            /\ bal_pc' = "idle"
       ELSE /\ bal_pc' = "check1"
            /\ UNCHANGED <<bal_returned, blocks_to_merge_vec>>
    /\ UNCHANGED <<min_block_size_rows, min_block_size_bytes, variant, memory_tracker,
                   hard_limit,
                   usage, chunks_to_merge_vec, data_types, nsq_accumulated_block,
                   nsq_returned, nsq_outcome>>
    /\ UNCHANGED sq_vars

\* lines 381-387
BalanceBlockTransform_add(input_block) ==
    /\ variant = "Block"
    /\ bal_pc = "idle"
    /\ ~Finished(bal_input)
    /\ bal_input' = Append(bal_input, input_block)
    /\ IF ~Chunk_bool(InputChunk(input_block))
       THEN /\ bal_returned' = Append(bal_returned,
                    BalanceBlockTransform_convertToChunk(blocks_to_merge_vec))
            /\ blocks_to_merge_vec' =
                    BalanceBlockTransform_convertToChunk_clear(blocks_to_merge_vec)
            /\ bal_pc' = "idle"
       ELSE /\ bal_pc' = "check1"
            /\ UNCHANGED <<bal_returned, blocks_to_merge_vec>>
    /\ UNCHANGED <<min_block_size_rows, min_block_size_bytes, variant, memory_tracker,
                   hard_limit,
                   usage, chunks_to_merge_vec, data_types, nsq_accumulated_block,
                   nsq_returned, nsq_outcome>>
    /\ UNCHANGED sq_vars

\* lines 438-439
BalanceBlockTransform_checkAndWaitMemoryAvailability ==
    /\ variant = "Block"
    /\ InFirstWait \/ InSecondWait
    /\ ~BalanceBlockTransform_memoryAvailable(BlocksBytes(blocks_to_merge_vec),
                                              hard_limit, usage)
    /\ bal_pc' = WaitPc
    /\ UNCHANGED <<min_block_size_rows, min_block_size_bytes, variant, memory_tracker,
                   hard_limit,
                   usage, chunks_to_merge_vec, blocks_to_merge_vec, data_types,
                   bal_input, bal_returned, nsq_accumulated_block, nsq_returned,
                   nsq_outcome>>
    /\ UNCHANGED sq_vars

\* lines 389-393
BalanceBlockTransform_addImpl_push ==
    /\ variant = "Block"
    /\ InFirstWait
    /\ BalanceBlockTransform_memoryAvailable(BlocksBytes(blocks_to_merge_vec),
                                             hard_limit, usage)
    /\ blocks_to_merge_vec' =
          BalanceBlockTransform_pushBack(blocks_to_merge_vec, Last(bal_input))
    /\ bal_pc' = "check2"
    /\ UNCHANGED <<min_block_size_rows, min_block_size_bytes, variant, memory_tracker,
                   hard_limit,
                   usage, chunks_to_merge_vec, data_types, bal_input, bal_returned,
                   nsq_accumulated_block, nsq_returned,
                   nsq_outcome>>
    /\ UNCHANGED sq_vars

\* lines 395-400
BalanceBlockTransform_addImpl_return ==
    /\ variant = "Block"
    /\ InSecondWait
    /\ BalanceBlockTransform_memoryAvailable(BlocksBytes(blocks_to_merge_vec),
                                             hard_limit, usage)
    /\ bal_returned' = Append(bal_returned,
          BalanceBlockTransform_result(blocks_to_merge_vec,
                                       InputChunk(Last(bal_input))))
    /\ blocks_to_merge_vec' =
          IF BalanceBlockTransform_isEnoughSizeBlocks(blocks_to_merge_vec)
          THEN BalanceBlockTransform_convertToChunk_clear(blocks_to_merge_vec)
          ELSE blocks_to_merge_vec
    /\ bal_pc' = "idle"
    /\ UNCHANGED <<min_block_size_rows, min_block_size_bytes, variant, memory_tracker,
                   hard_limit,
                   usage, chunks_to_merge_vec, data_types, bal_input,
                   nsq_accumulated_block, nsq_returned,
                   nsq_outcome>>
    /\ UNCHANGED sq_vars

\* lines 279 and 435, `memory_tracker->getHardLimit()` in a balancer whose
\* constructor left memory_tracker unset (the member has no initializer):
\* a read through an indeterminate pointer.  Undefined behaviour: the
\* process is killed here, or the reads give some limit and amount and the
\* call goes on with them as in the actions above
BalanceTransform_checkAndWaitMemoryAvailability_unset ==
    /\ variant = "Chunk"
    /\ memory_tracker = "unset"
    /\ InFirstWait \/ InSecondWait
    /\ bal_pc' = "crashed"
    /\ UNCHANGED <<min_block_size_rows, min_block_size_bytes, variant, memory_tracker,
                   hard_limit, usage, chunks_to_merge_vec, blocks_to_merge_vec,
                   data_types, bal_input, bal_returned, nsq_accumulated_block,
                   nsq_returned, nsq_outcome>>
    /\ UNCHANGED sq_vars

BalanceBlockTransform_checkAndWaitMemoryAvailability_unset ==
    /\ variant = "Block"
    /\ memory_tracker = "unset"
    /\ InFirstWait \/ InSecondWait
    /\ bal_pc' = "crashed"
    /\ UNCHANGED <<min_block_size_rows, min_block_size_bytes, variant, memory_tracker,
                   hard_limit, usage, chunks_to_merge_vec, blocks_to_merge_vec,
                   data_types, bal_input, bal_returned, nsq_accumulated_block,
                   nsq_returned, nsq_outcome>>
    /\ UNCHANGED sq_vars

\* the memory tracker's amount, changed by the other threads of the query
MemoryTracker_set(amount) ==
    /\ amount # usage
    /\ usage' = amount
    /\ UNCHANGED <<min_block_size_rows, min_block_size_bytes, variant, memory_tracker,
                   hard_limit,
                   chunks_to_merge_vec, blocks_to_merge_vec, data_types, bal_pc,
                   bal_input, bal_returned, nsq_accumulated_block, nsq_returned,
                   nsq_outcome>>
    /\ UNCHANGED sq_vars

(* ------------------- NewSquashingTransform (deferred) ------------------ *)
\* mutant: the incoming values are inserted before the accumulated ones
NewSquashingTransform_append_prepend(accumulated, input_chunk, types) ==
    IF Chunk_getNumColumns(input_chunk) = 0
    THEN accumulated
    ELSE IF ~Block_bool(accumulated)
    THEN [i \in 1..Chunk_getNumColumns(input_chunk) |->
            [column |-> input_chunk.columns[i],
             type |-> types[i],
             name |-> types[i] \o ToString(i - 1)]]
    ELSE [i \in 1..Block_columns(accumulated) |->
            [accumulated[i] EXCEPT
                !.column = IColumn_insertRangeFrom(input_chunk.columns[i], @)]]

NewSquashingTransform_append(accumulated, input_chunk, types) ==
    IF Chunk_getNumColumns(input_chunk) = 0
    THEN accumulated
    ELSE IF ~Block_bool(accumulated)
    THEN [i \in 1..Chunk_getNumColumns(input_chunk) |->
            [column |-> input_chunk.columns[i],
             type |-> types[i],
             name |-> types[i] \o ToString(i - 1)]]
    ELSE [i \in 1..Block_columns(accumulated) |->
            [accumulated[i] EXCEPT
                !.column = IColumn_insertRangeFrom(@, input_chunk.columns[i])]]

\* the loop over info->chunks, from chunk i on
RECURSIVE NewSquashingTransform_appendAll(_, _, _, _)
NewSquashingTransform_appendAll(accumulated, chunks, types, i) ==
    IF i > Len(chunks)
    THEN accumulated
    ELSE NewSquashingTransform_appendAll(
            NewSquashingTransform_append(accumulated, chunks[i], types),
            chunks, types, i + 1)

\* the null pointer typeid_cast gives for an info of another type
nullptr == [kind |-> "nullptr"]

\* mutant: a chunk to squash with an empty list is refused
getInfoFromChunk_rejectEmpty(chunk) ==
    IF chunk.info.kind = "ChunksToSquash" /\ chunk.info.list # <<>>
    THEN chunk.info
    ELSE nullptr

\* getInfoFromChunk: the chunk's info cast to ChunksToSquash
getInfoFromChunk(chunk) ==
    IF chunk.info.kind = "ChunksToSquash" THEN chunk.info ELSE nullptr

\* mutant: the squashed block is returned as a copy and kept
NewSquashingTransform_addImpl_keep(accumulated, input_chunk) ==
    IF ~Chunk_hasChunkInfo(input_chunk)
    THEN [ret |-> accumulated, acc |-> accumulated]
    ELSE LET squashed == NewSquashingTransform_appendAll(accumulated,
                            input_chunk.info.list, input_chunk.info.data_types, 1)
         IN  [ret |-> squashed, acc |-> squashed]

\* mutant: the columns of a chunk without info are squashed too
NewSquashingTransform_addImpl_squashPlain(accumulated, input_chunk) ==
    IF ~Chunk_hasChunkInfo(input_chunk)
    THEN [ret |-> NewSquashingTransform_append(accumulated, input_chunk,
                                               Block_getDataTypes(Header)),
          acc |-> EmptyBlock]
    ELSE LET info == getInfoFromChunk(input_chunk)
         IN  [ret |-> NewSquashingTransform_appendAll(accumulated, info.list,
                                                      info.data_types, 1),
              acc |-> EmptyBlock]

\* one call of addImpl: the block returned and the buffer left behind
NewSquashingTransform_addImpl(accumulated, input_chunk) ==
    IF ~Chunk_hasChunkInfo(input_chunk)
    THEN [ret |-> accumulated, acc |-> EmptyBlock]
    ELSE LET info == getInfoFromChunk(input_chunk)
         IN  [ret |-> NewSquashingTransform_appendAll(accumulated, info.list,
                                                      info.data_types, 1),
              acc |-> EmptyBlock]

\* mutant: the incoming values are inserted before the accumulated ones
NewSquashingBlockTransform_append_prepend(accumulated, input_block) ==
    IF Block_columns(input_block) = 0
    THEN accumulated
    ELSE IF ~Block_bool(accumulated)
    THEN [i \in 1..Block_columns(input_block) |->
            [column |-> Block_getColumns(input_block)[i],
             type |-> Block_getDataTypes(input_block)[i],
             name |-> input_block[i].name]]
    ELSE [i \in 1..Block_columns(accumulated) |->
            [accumulated[i] EXCEPT
                !.column = IColumn_insertRangeFrom(Block_getColumns(input_block)[i], @)]]

NewSquashingBlockTransform_append(accumulated, input_block) ==
    IF Block_columns(input_block) = 0
    THEN accumulated
    ELSE IF ~Block_bool(accumulated)
    THEN [i \in 1..Block_columns(input_block) |->
            [column |-> Block_getColumns(input_block)[i],
             type |-> Block_getDataTypes(input_block)[i],
             name |-> input_block[i].name]]
    ELSE [i \in 1..Block_columns(accumulated) |->
            [accumulated[i] EXCEPT
                !.column = IColumn_insertRangeFrom(@, Block_getColumns(input_block)[i])]]

RECURSIVE NewSquashingBlockTransform_appendAll(_, _, _)
NewSquashingBlockTransform_appendAll(accumulated, blocks, i) ==
    IF i > Len(blocks)
    THEN accumulated
    ELSE NewSquashingBlockTransform_appendAll(
            NewSquashingBlockTransform_append(accumulated, blocks[i]), blocks, i + 1)

\* getInfoFromChunkBlock: the chunk's info cast to BlocksToSquash
getInfoFromChunkBlock(chunk) ==
    IF chunk.info.kind = "BlocksToSquash" THEN chunk.info ELSE nullptr

\* mutant: the squashed block is returned as a copy and kept
NewSquashingBlockTransform_addImpl_keep(accumulated, input_chunk) ==
    IF ~Chunk_hasChunkInfo(input_chunk)
    THEN [ret |-> accumulated, acc |-> EmptyBlock]
    ELSE LET info == getInfoFromChunkBlock(input_chunk)
             squashed == NewSquashingBlockTransform_appendAll(accumulated, info.list, 1)
         IN  [ret |-> squashed, acc |-> squashed]

NewSquashingBlockTransform_addImpl(accumulated, input_chunk) ==
    IF ~Chunk_hasChunkInfo(input_chunk)
    THEN [ret |-> accumulated, acc |-> EmptyBlock]
    ELSE LET info == getInfoFromChunkBlock(input_chunk)
         IN  [ret |-> NewSquashingBlockTransform_appendAll(accumulated, info.list, 1),
              acc |-> EmptyBlock]

\* the chunk the squashing stage is given next: the chunks the balancer has
\* returned reach it in order, one per call
NextChunk == bal_returned[Len(nsq_returned) + 1]

\* the process was killed in a call of the squashing stage
Crashed == \E k \in 1..Len(nsq_outcome) : nsq_outcome[k] = "crashed"

\* what reading `info->chunks` / `info->blocks` through a null `info` may do
\* (undefined behaviour): kill the process, or read a list of no element or
\* of one element of no particular content
UndefinedReads ==
    {[crash |-> TRUE, list |-> <<>>]}
    \cup {[crash |-> FALSE, list |-> l] :
            l \in {<<>>,
                   <<IF variant = "Chunk"
                     THEN Chunk(Block_getColumns(MakeBlock(0, 0, 1)), 1, NoInfo)
                     ELSE MakeBlock(0, 0, 1)>>}}

\* mutant: the call goes on only when the memory tracker has room
NewSquashingTransform_add_gated ==
    LET r == NewSquashingTransform_addImpl(nsq_accumulated_block, NextChunk)
    IN  /\ variant = "Chunk"
        /\ Len(nsq_returned) < Len(bal_returned)
        /\ ~Crashed
        /\ Chunk_hasChunkInfo(NextChunk) => getInfoFromChunk(NextChunk) # nullptr
        /\ BalanceTransform_memoryAvailable(Block_bytes(nsq_accumulated_block),
                                            hard_limit, usage)
        /\ nsq_returned' = Append(nsq_returned, r.ret)
        /\ nsq_accumulated_block' = r.acc
        /\ nsq_outcome' = Append(nsq_outcome, "returned")
        /\ UNCHANGED <<min_block_size_rows, min_block_size_bytes, variant, memory_tracker,
                   hard_limit,
                       usage, chunks_to_merge_vec, blocks_to_merge_vec, data_types,
                       bal_pc, bal_input, bal_returned>>
        /\ UNCHANGED sq_vars

\* a call of add on a chunk without info, or with the info addImpl casts to
NewSquashingTransform_add ==
    LET r == NewSquashingTransform_addImpl(nsq_accumulated_block, NextChunk)
    IN  /\ variant = "Chunk"
        /\ Len(nsq_returned) < Len(bal_returned)
        /\ ~Crashed
        /\ Chunk_hasChunkInfo(NextChunk) => getInfoFromChunk(NextChunk) # nullptr
        /\ nsq_returned' = Append(nsq_returned, r.ret)
        /\ nsq_accumulated_block' = r.acc
        /\ nsq_outcome' = Append(nsq_outcome, "returned")
        /\ UNCHANGED <<min_block_size_rows, min_block_size_bytes, variant, memory_tracker,
                   hard_limit,
                       usage, chunks_to_merge_vec, blocks_to_merge_vec, data_types,
                       bal_pc, bal_input, bal_returned>>
        /\ UNCHANGED sq_vars

\* lines 162-164 on a chunk whose info is not a ChunksToSquash: `info` is
\* null and `info->chunks` is read through it.  Undefined behaviour: the
\* process is killed, or the loop runs over whatever is read
NewSquashingTransform_add_nullInfo ==
    /\ variant = "Chunk"
    /\ Len(nsq_returned) < Len(bal_returned)
    /\ ~Crashed
    /\ Chunk_hasChunkInfo(NextChunk)
    /\ getInfoFromChunk(NextChunk) = nullptr
    /\ \E read \in UndefinedReads :
          IF read.crash
          THEN /\ nsq_returned' = Append(nsq_returned, EmptyBlock)
               /\ nsq_outcome' = Append(nsq_outcome, "crashed")
               /\ UNCHANGED nsq_accumulated_block
          ELSE /\ nsq_returned' = Append(nsq_returned,
                      NewSquashingTransform_appendAll(nsq_accumulated_block, read.list,
                                                      Block_getDataTypes(Header), 1))
               /\ nsq_outcome' = Append(nsq_outcome, "returned")
               /\ nsq_accumulated_block' = EmptyBlock
    /\ UNCHANGED <<min_block_size_rows, min_block_size_bytes, variant, memory_tracker,
                   hard_limit,
                   usage, chunks_to_merge_vec, blocks_to_merge_vec, data_types,
                   bal_pc, bal_input, bal_returned>>
    /\ UNCHANGED sq_vars

NewSquashingBlockTransform_add ==
    LET r == NewSquashingBlockTransform_addImpl(nsq_accumulated_block, NextChunk)
    IN  /\ variant = "Block"
        /\ Len(nsq_returned) < Len(bal_returned)
        /\ ~Crashed
        /\ Chunk_hasChunkInfo(NextChunk) => getInfoFromChunkBlock(NextChunk) # nullptr
        /\ nsq_returned' = Append(nsq_returned, r.ret)
        /\ nsq_accumulated_block' = r.acc
        /\ nsq_outcome' = Append(nsq_outcome, "returned")
        /\ UNCHANGED <<min_block_size_rows, min_block_size_bytes, variant, memory_tracker,
                   hard_limit,
                       usage, chunks_to_merge_vec, blocks_to_merge_vec, data_types,
                       bal_pc, bal_input, bal_returned>>
        /\ UNCHANGED sq_vars

\* lines 328-330 on a chunk whose info is not a BlocksToSquash
NewSquashingBlockTransform_add_nullInfo ==
    /\ variant = "Block"
    /\ Len(nsq_returned) < Len(bal_returned)
    /\ ~Crashed
    /\ Chunk_hasChunkInfo(NextChunk)
    /\ getInfoFromChunkBlock(NextChunk) = nullptr
    /\ \E read \in UndefinedReads :
          IF read.crash
          THEN /\ nsq_returned' = Append(nsq_returned, EmptyBlock)
               /\ nsq_outcome' = Append(nsq_outcome, "crashed")
               /\ UNCHANGED nsq_accumulated_block
          ELSE /\ nsq_returned' = Append(nsq_returned,
                      NewSquashingBlockTransform_appendAll(nsq_accumulated_block,
                                                           read.list, 1))
               /\ nsq_outcome' = Append(nsq_outcome, "returned")
               /\ nsq_accumulated_block' = EmptyBlock
    /\ UNCHANGED <<min_block_size_rows, min_block_size_bytes, variant, memory_tracker,
                   hard_limit,
                   usage, chunks_to_merge_vec, blocks_to_merge_vec, data_types,
                   bal_pc, bal_input, bal_returned>>
    /\ UNCHANGED sq_vars

\* the rows carried by the chunks given to the squashing stage so far
ChunksPassedRows(chunks) ==
    SumSeq([k \in 1..Len(chunks) |->
        IF chunks[k].info.kind = "ChunksToSquash" THEN ChunksRows(chunks[k].info.list)
        ELSE IF chunks[k].info.kind = "BlocksToSquash" THEN BlocksRows(chunks[k].info.list)
        ELSE chunks[k].num_rows])

\* the chunks or blocks of a chunk to squash made by the caller: one of
\* sizes[i] rows for each i
RawBatches(kind, k, before, sizes) ==
    [i \in 1..Len(sizes) |->
        LET block == MakeBlock(<<k, i>>, before + SumSeq(SubSeq(sizes, 1, i - 1)),
                               sizes[i])
        IN  IF kind = "ChunksToSquash" THEN InputChunk(block) ELSE block]

\* a chunk to squash as convertToChunk builds it, of the given kind
ChunkToSquash(kind, list) ==
    Chunk(Block_getColumns(Header), 0,
          [kind |-> kind, list |-> list,
           data_types |-> IF kind = "ChunksToSquash"
                          THEN Block_getDataTypes(Header) ELSE <<>>])

\* the chunks a caller of the squashing stage may pass on its own: a chunk to
\* squash of the kind of the stage with up to two chunks or blocks (or none),
\* one of the other kind, a chunk with an info of a third type, a chunk
\* without info, the empty chunk
UpstreamChunks(chunks) ==
    LET k == Len(chunks) + 1
        before == ChunksPassedRows(chunks)
        own == IF variant = "Chunk" THEN "ChunksToSquash" ELSE "BlocksToSquash"
        other == IF variant = "Chunk" THEN "BlocksToSquash" ELSE "ChunksToSquash"
        lists == {<<>>, <<MaxRows>>, <<0, MaxRows>>, <<MaxRows, MaxRows>>}
    IN  {ChunkToSquash(own, RawBatches(own, k, before, sizes)) : sizes \in lists}
        \cup {ChunkToSquash(other, RawBatches(other, k, before, <<MaxRows>>))}
        \cup {Chunk(Block_getColumns(Header), 0,
                    [kind |-> "AggregatedChunkInfo", list |-> <<>>, data_types |-> <<>>])}
        \cup {InputChunk(MakeBlock(k, before, MaxRows))}
        \cup {EmptyChunk}

\* the caller passes a chunk to the squashing stage once the chunk before it
\* has been squashed
Upstream_pass(chunk) ==
    /\ Len(bal_returned) < MaxInputs
    /\ Len(nsq_returned) = Len(bal_returned)
    /\ ~Crashed
    /\ bal_returned' = Append(bal_returned, chunk)
    /\ UNCHANGED <<min_block_size_rows, min_block_size_bytes, variant, memory_tracker,
                   hard_limit,
                   usage, chunks_to_merge_vec, blocks_to_merge_vec, data_types,
                   bal_pc, bal_input, nsq_accumulated_block, nsq_returned,
                   nsq_outcome>>
    /\ UNCHANGED sq_vars

(* ---------------------------- specifications --------------------------- *)
Thresholds ==
    /\ min_block_size_rows \in 0..MaxMinRows
    /\ min_block_size_bytes \in {0, MaxMinBytes}

\* after construction: nothing accumulated, nothing passed
Constructed ==
    /\ accumulated_block = EmptyBlock
    /\ sq_input = <<>>
    /\ sq_returned = <<>>
    /\ sq_outcome = <<>>
    /\ chunks_to_merge_vec = <<>>
    /\ blocks_to_merge_vec = <<>>
    /\ data_types = <<>>
    /\ bal_pc = "idle"
    /\ bal_input = <<>>
    /\ bal_returned = <<>>
    /\ nsq_accumulated_block = EmptyBlock
    /\ nsq_returned = <<>>
    /\ nsq_outcome = <<>>

\* a balancer of either kind, its squashing stage and the query's memory tracker
Init ==
    /\ Thresholds
    /\ Constructed
    /\ variant \in {"Chunk", "Block"}
    /\ memory_tracker = "set"
    /\ hard_limit \in {0, 1, MaxHardLimit}
    /\ usage \in 0..MaxUsage

Next ==
    \/ \E b \in NextBlocks(bal_input) : BalanceTransform_add(b)
    \/ BalanceTransform_checkAndWaitMemoryAvailability
    \/ BalanceTransform_addImpl_push
    \/ BalanceTransform_addImpl_return
    \/ NewSquashingTransform_add
    \/ \E b \in NextBlocks(bal_input) : BalanceBlockTransform_add(b)
    \/ BalanceBlockTransform_checkAndWaitMemoryAvailability
    \/ BalanceBlockTransform_addImpl_push
    \/ BalanceBlockTransform_addImpl_return
    \/ NewSquashingBlockTransform_add
    \/ \E a \in 0..MaxUsage : MemoryTracker_set(a)

Spec == Init /\ [][Next]_vars

\* the thread running add is scheduled: a step of the call that stays
\* possible is eventually taken
FairSpec ==
    /\ Spec
    /\ WF_vars(BalanceTransform_addImpl_push)
    /\ WF_vars(BalanceTransform_addImpl_return)
    /\ WF_vars(BalanceBlockTransform_addImpl_push)
    /\ WF_vars(BalanceBlockTransform_addImpl_return)

\* a SquashingTransform alone
InitSquashing ==
    /\ Thresholds
    /\ Constructed
    /\ variant = "Chunk"
    /\ memory_tracker = "set"
    /\ hard_limit = 0
    /\ usage = 0

NextSquashing == \E b \in NextBlocks(sq_input) : SquashingTransform_add(b)

SpecSquashing == InitSquashing /\ [][NextSquashing]_vars

\* a SquashingTransform with a row minimum only, fed blocks that are all
\* smaller than it; besides the small minimums, the minimum and the block
\* sizes of the worked example (a minimum of 1000 rows, blocks of 400, 400,
\* 400 and 300 rows)
Example == [min_block_size_rows |-> 1000, rows |-> <<400, 400, 400, 300>>]

InitSmallBlocks ==
    /\ min_block_size_rows \in (1..MaxMinRows) \cup {Example.min_block_size_rows}
    /\ min_block_size_bytes = 0
    /\ Constructed
    /\ variant = "Chunk"
    /\ memory_tracker = "set"
    /\ hard_limit = 0
    /\ usage = 0

SmallBlocks(input) ==
    LET sizes == IF min_block_size_rows = Example.min_block_size_rows
                 THEN IF Len(input) < Len(Example.rows)
                      THEN {Example.rows[i] : i \in DOMAIN Example.rows}
                      ELSE {}
                 ELSE IF Len(input) < MaxInputs
                      THEN {n \in 0..MaxRows : n < min_block_size_rows}
                      ELSE {}
    IN  {MakeBlock(Len(input) + 1, TotalRows(input), n) : n \in sizes}
        \cup {EmptyBlock}

NextSmallBlocks == \E b \in SmallBlocks(sq_input) : SquashingTransform_add(b)

SpecSmallBlocks == InitSmallBlocks /\ [][NextSmallBlocks]_vars

\* a SquashingTransform whose caller may pass malformed blocks
NextMalformed ==
    \E b \in MalformedBlocks(sq_input) :
        \/ SquashingTransform_add(b)
        \/ SquashingTransform_add_assertFails(b)

SpecMalformed == InitSquashing /\ [][NextMalformed]_vars

\* a balancer of either kind constructed on a thread without memory tracker:
\* memory_tracker is left unset, and hard_limit and usage are what the reads
\* through it give when they do not kill the process
InitNoTracker ==
    /\ Thresholds
    /\ Constructed
    /\ variant \in {"Chunk", "Block"}
    /\ memory_tracker = "unset"
    /\ hard_limit \in {0, 1}
    /\ usage \in 0..MaxUsage

NextNoTracker ==
    \/ \E b \in NextBlocks(bal_input) : BalanceTransform_add(b)
    \/ BalanceTransform_checkAndWaitMemoryAvailability
    \/ BalanceTransform_checkAndWaitMemoryAvailability_unset
    \/ BalanceTransform_addImpl_push
    \/ BalanceTransform_addImpl_return
    \/ \E b \in NextBlocks(bal_input) : BalanceBlockTransform_add(b)
    \/ BalanceBlockTransform_checkAndWaitMemoryAvailability
    \/ BalanceBlockTransform_checkAndWaitMemoryAvailability_unset
    \/ BalanceBlockTransform_addImpl_push
    \/ BalanceBlockTransform_addImpl_return

SpecNoTracker == InitNoTracker /\ [][NextNoTracker]_vars

\* a squashing stage of either kind alone, given chunks by its caller
InitDeferred ==
    /\ min_block_size_rows \in {0, MaxMinRows}
    /\ min_block_size_bytes \in {0, MaxMinBytes}
    /\ Constructed
    /\ variant \in {"Chunk", "Block"}
    /\ memory_tracker = "set"
    /\ hard_limit = 0
    /\ usage = 0

NextDeferred ==
    \/ \E chunk \in UpstreamChunks(bal_returned) : Upstream_pass(chunk)
    \/ NewSquashingTransform_add
    \/ NewSquashingTransform_add_nullInfo
    \/ NewSquashingBlockTransform_add
    \/ NewSquashingBlockTransform_add_nullInfo

SpecDeferred == InitDeferred /\ [][NextDeferred]_vars

(* ------------------------------- claims -------------------------------- *)
\* the threshold of a component: either non-zero minimum reached, or both zero
MeetsThreshold(rows, bytes) ==
    \/ (min_block_size_rows = 0 /\ min_block_size_bytes = 0)
    \/ (min_block_size_rows # 0 /\ rows >= min_block_size_rows)
    \/ (min_block_size_bytes # 0 /\ bytes >= min_block_size_bytes)

BlockMeetsThreshold(block) == MeetsThreshold(Block_rows(block), Block_bytes(block))

\* the buffer of the SquashingTransform before its k-th call
AccumulatedBefore(k) ==
    SquashingTransform_run(EmptyBlock, <<>>, SubSeq(sq_input, 1, k - 1), 1).acc

\* C1: SquashingTransform, order preservation: once the end-of-stream block
\* has been passed, the rows of the returned blocks, concatenated in call
\* order, are the rows of the input blocks in the same order, in every column
\* (nothing lost, duplicated or reordered).
C1_OrderPreserved ==
    Finished(sq_input) =>
        \A c \in 1..NumColumns :
            ConcatColumn(sq_returned, c) = ConcatColumn(sq_input, c)

\* a finished stream of MaxInputs blocks in which a returned block was merged
\* from several input blocks
C1_Witness ==
    /\ Finished(sq_input)
    /\ Len(sq_input) = MaxInputs + 1
    /\ \E k \in 1..Len(sq_returned) :
          /\ Block_rows(sq_returned[k]) > Block_rows(sq_input[k])
          /\ Block_rows(sq_input[k]) > 0

\* C7 (as claimed): SquashingTransform, threshold satisfaction: every
\* non-empty block returned by a call whose input is not the end-of-stream
\* block satisfies isEnoughSize.
C7_EveryReturnedBlockIsEnough ==
    \A k \in 1..Len(sq_returned) :
        (Block_bool(sq_input[k]) /\ Block_rows(sq_returned[k]) > 0)
            => BlockMeetsThreshold(sq_returned[k])

\* C7 (amended): every non-empty block returned by a call whose input is not
\* the end-of-stream block satisfies isEnoughSize, unless the input block is
\* itself big enough and the buffer was not empty: then the buffer is returned
\* whatever its size and the input block takes its place.
C7_ReturnedBlockIsEnoughUnlessReplaced ==
    \A k \in 1..Len(sq_returned) :
        (/\ Block_bool(sq_input[k])
         /\ Block_rows(sq_returned[k]) > 0
         /\ ~(BlockMeetsThreshold(sq_input[k]) /\ Block_bool(AccumulatedBefore(k))))
            => BlockMeetsThreshold(sq_returned[k])

\* a block merged by append is returned, and a small buffer is returned
\* because a big block arrived
C7_Witness ==
    /\ \E k \in 1..Len(sq_returned) :
          /\ Block_bool(sq_input[k])
          /\ ~BlockMeetsThreshold(sq_input[k])
          /\ Block_rows(sq_returned[k]) > Block_rows(sq_input[k])
    /\ \E k \in 1..Len(sq_returned) :
          /\ BlockMeetsThreshold(sq_input[k])
          /\ Block_rows(sq_returned[k]) > 0
          /\ ~BlockMeetsThreshold(sq_returned[k])

\* C10: SquashingTransform, zero-copy fast path: a call with a block that is
\* big enough while the buffer is empty returns that very block (the same
\* columns in the same buffers) and leaves the buffer empty.
C10_ZeroCopyFastPath ==
    \A k \in 1..Len(sq_returned) :
        (/\ Block_bool(sq_input[k])
         /\ BlockMeetsThreshold(sq_input[k])
         /\ AccumulatedBefore(k) = EmptyBlock)
            => /\ sq_returned[k] = sq_input[k]
               /\ AccumulatedBefore(k + 1) = EmptyBlock

\* the fast path is taken after earlier blocks were accumulated and returned
C10_Witness ==
    /\ min_block_size_rows > 1
    /\ \E k \in 3..Len(sq_returned) :
          /\ Block_bool(sq_input[k])
          /\ BlockMeetsThreshold(sq_input[k])
          /\ AccumulatedBefore(k) = EmptyBlock
          /\ Block_rows(sq_returned[k - 1]) > Block_rows(sq_input[k - 1])
          /\ sq_returned[k] = sq_input[k]

(* ------------------- claims on the balancing pipeline ------------------ *)
\* the blocks or chunks the balancer holds, as blocks of values
Pending == IF variant = "Chunk" THEN chunks_to_merge_vec ELSE blocks_to_merge_vec

PendingBytes ==
    IF variant = "Chunk"
    THEN ChunksBytes(chunks_to_merge_vec)
    ELSE BlocksBytes(blocks_to_merge_vec)

\* the bytes handed to the wait loop are admissible under the hard limit
Admissible(bytes) == hard_limit = 0 \/ hard_limit - usage > bytes

InCall == bal_pc # "idle"

\* the block of the running call is in the balancer's vector
CandidateInPending ==
    /\ InCall
    /\ Pending # <<>>
    /\ Last(Pending) = IF variant = "Chunk"
                       THEN Chunk_clone(InputChunk(Last(bal_input)))
                       ELSE Last(bal_input)

\* the rows and bytes a returned chunk to squash carries
MarkerRows(chunk) ==
    IF chunk.info.kind = "ChunksToSquash"
    THEN ChunksRows(chunk.info.list)
    ELSE BlocksRows(chunk.info.list)

MarkerBytes(chunk) ==
    IF chunk.info.kind = "ChunksToSquash"
    THEN ChunksBytes(chunk.info.list)
    ELSE BlocksBytes(chunk.info.list)

\* every block was passed, every call returned, every chunk was squashed
PipelineDone ==
    /\ Finished(bal_input)
    /\ Len(bal_returned) = Len(bal_input)
    /\ Len(nsq_returned) = Len(bal_returned)

\* what a SquashingTransform with the same thresholds returns for the
\* balancer's input
EagerReturned == SquashingTransform_run(EmptyBlock, <<>>, bal_input, 1).returned

HasRows(block) == Block_rows(block) > 0

\* the non-empty blocks of a sequence, each as its columns' values
Batches(blocks) ==
    LET kept == SelectSeq(blocks, HasRows)
    IN  [k \in 1..Len(kept) |-> [c \in 1..NumColumns |-> ColumnVals(kept[k], c)]]

\* C2 (as claimed): marker round-trip: balancer + squashing stage return the
\* same sequence of output batches as a SquashingTransform with the same
\* thresholds fed the same input.
C2_SameBatchesAsEager ==
    PipelineDone => Batches(nsq_returned) = Batches(EagerReturned)

\* C2 (amended): balancer + squashing stage return the same rows in the same
\* order, in every column, as a SquashingTransform fed the same input; the
\* boundaries between the output batches may differ.
C2_SameRowsAsEager ==
    PipelineDone =>
        \A c \in 1..NumColumns :
            ConcatColumn(nsq_returned, c) = ConcatColumn(EagerReturned, c)

\* a finished run whose squashed output holds a block merged from several
\* chunks and whose batches are not those of the SquashingTransform
C2_Witness ==
    /\ PipelineDone
    /\ \E k \in 1..Len(bal_returned) :
          /\ Len(bal_returned[k].info.list) > 1
          /\ Block_rows(nsq_returned[k]) > Block_rows(bal_input[k])
    /\ Batches(nsq_returned) # Batches(EagerReturned)

\* C3: the wait loop lets the call go on only in a state where the hard
\* limit is 0 or hard limit - usage > requested bytes; otherwise the call
\* stays in the loop.
C3_GoesOnOnlyWhenAdmissible ==
    [][(/\ InFirstWait \/ InSecondWait
        /\ bal_pc' \notin {bal_pc, "wait1", "wait2"})
            => Admissible(PendingBytes)]_vars

\* a call has gone through both wait loops under a non-zero hard limit, and
\* a later call is held in the loop
C3_Witness ==
    /\ hard_limit # 0
    /\ Len(bal_returned) > 0
    /\ Block_bool(bal_input[1])
    /\ bal_pc \in {"wait1", "wait2"}

\* C4 (as claimed): the wait loop is consulted with the bytes of the vector
\* plus the candidate before the candidate is appended: in every state where
\* that total is not admissible under the hard limit, the candidate is not in
\* the vector.
C4_NotAppendedBeforeAdmitted ==
    (InCall /\ CandidateInPending) => Admissible(PendingBytes)

\* C5 (as claimed): liveness of admission: a call that is in the wait loop
\* while the accounting keeps hard limit - usage > requested bytes from some
\* point on eventually returns, the waiting thread being scheduled fairly.
C5_AdmissibleCallReturns ==
    []((InCall /\ [](InCall => Admissible(PendingBytes))) => <>(~InCall))

\* C6: with a hard limit of 0 a call never finds the memory unavailable,
\* whatever the usage and the sizes: it is never in the wait loop's body and
\* its next step is enabled.
C6_UnboundedNeverWaits ==
    hard_limit = 0 =>
        /\ bal_pc \notin {"wait1", "wait2"}
        /\ InFirstWait =>
              ENABLED (BalanceTransform_addImpl_push \/ BalanceBlockTransform_addImpl_push)
        /\ InSecondWait =>
              ENABLED (BalanceTransform_addImpl_return
                       \/ BalanceBlockTransform_addImpl_return)

\* calls returned with no limit while the usage is at its highest
C6_Witness ==
    /\ hard_limit = 0
    /\ usage = MaxUsage
    /\ Len(bal_returned) > 1
    /\ InSecondWait
    /\ PendingBytes > 0

\* C8: every chunk to squash returned by a call whose input is not the
\* end-of-stream block carries chunks whose summed rows and bytes satisfy
\* isEnoughSize, and the block squashed from it satisfies it too.
C8_MarkerMeetsThreshold ==
    \A k \in 1..Len(bal_returned) :
        (Block_bool(bal_input[k]) /\ Chunk_hasChunkInfo(bal_returned[k]))
            => /\ MeetsThreshold(MarkerRows(bal_returned[k]), MarkerBytes(bal_returned[k]))
               /\ k <= Len(nsq_returned) => BlockMeetsThreshold(nsq_returned[k])

\* a chunk to squash of several chunks, each below the threshold, was
\* returned and squashed
C8_Witness ==
    \E k \in 1..Len(nsq_returned) :
        /\ Block_bool(bal_input[k])
        /\ Chunk_hasChunkInfo(bal_returned[k])
        /\ Len(bal_returned[k].info.list) > 1
        /\ ~BlockMeetsThreshold(bal_input[k])
        /\ Block_rows(nsq_returned[k]) = MarkerRows(bal_returned[k])

\* the rows a returned chunk stands for: those of its list for a chunk to
\* squash, its own otherwise
ReturnedRows(chunk) ==
    IF Chunk_hasChunkInfo(chunk) THEN MarkerRows(chunk) ELSE chunk.num_rows

SquashRows(chunk) == IF Chunk_hasChunkInfo(chunk) THEN MarkerRows(chunk) ELSE 0

BalancerDone == Finished(bal_input) /\ Len(bal_returned) = Len(bal_input)

\* C9 (as claimed): the rows of all values returned by the balancer (a chunk
\* to squash counted as its list, any other chunk with its own rows) sum to
\* the rows of the input.
C9_ReturnedRowsEqualInputRows ==
    BalancerDone =>
        SumSeq([k \in 1..Len(bal_returned) |-> ReturnedRows(bal_returned[k])])
            = TotalRows(bal_input)

\* C9 (amended): the rows carried by the chunks to squash the balancer
\* returns sum to the rows of the input; a chunk returned without info is the
\* input chunk, whose rows stay in the vector and are returned again in a
\* later chunk to squash.
C9_SquashRowsEqualInputRows ==
    BalancerDone =>
        SumSeq([k \in 1..Len(bal_returned) |-> SquashRows(bal_returned[k])])
            = TotalRows(bal_input)

\* a finished stream in which an input chunk with rows was returned as is
C9_Witness ==
    /\ BalancerDone
    /\ \E k \in 1..Len(bal_returned) :
          /\ ~Chunk_hasChunkInfo(bal_returned[k])
          /\ bal_returned[k].num_rows > 0
    /\ \E k \in 1..Len(bal_returned) : Len(bal_returned[k].info.list) > 1

(* ------------------- further claims on SquashingTransform -------------- *)
\* C11: SquashingTransform: a big-enough input is never merged with its
\* neighbours: once the stream is over, every input block that is big enough
\* on its own has been returned as a block of its own (the very block),
\* whatever small blocks came before or after it; until then it is either
\* returned already or alone in the buffer.
C11_BigBlockNotMerged ==
    \A k \in 1..Len(sq_input) :
        (Block_bool(sq_input[k]) /\ BlockMeetsThreshold(sq_input[k]))
            => \/ \E j \in k..Len(sq_returned) : sq_returned[j] = sq_input[k]
               \/ ~Finished(sq_input) /\ accumulated_block = sq_input[k]

\* a big block arrived between two small ones and was returned alone, after
\* the small one before it and one call later than it was passed
C11_Witness ==
    /\ Finished(sq_input)
    /\ \E k \in 2..(Len(sq_input) - 2) :
          /\ BlockMeetsThreshold(sq_input[k])
          /\ HasRows(sq_input[k - 1]) /\ ~BlockMeetsThreshold(sq_input[k - 1])
          /\ HasRows(sq_input[k + 1]) /\ ~BlockMeetsThreshold(sq_input[k + 1])
          /\ sq_returned[k] = sq_input[k - 1]
          /\ sq_returned[k + 1] = sq_input[k]


\* the values of column c received in the first k calls and not returned by
\* the first k - 1 of them
NotYetReturned(k, c) ==
    LET received == ConcatColumn(SubSeq(sq_input, 1, k), c)
        returned == ConcatColumn(SubSeq(sq_returned, 1, k - 1), c)
    IN  SubSeq(received, Len(returned) + 1, Len(received))

\* C16: SquashingTransform, end of stream: the call with the block without
\* columns returns everything accumulated, that is all rows received and not
\* yet returned (possibly none), and leaves the accumulated block empty.
C16_EndOfStreamFlushes ==
    \A k \in 1..Len(sq_input) :
        ~Block_bool(sq_input[k])
            => /\ \A c \in 1..NumColumns :
                      ColumnVals(sq_returned[k], c) = NotYetReturned(k, c)
               /\ sq_returned[k] = AccumulatedBefore(k)
               /\ k = Len(sq_input) => accumulated_block = EmptyBlock

\* the end-of-stream block came while the rows of two blocks were accumulated
C16_Witness ==
    /\ Finished(sq_input)
    /\ Len(sq_input) = MaxInputs + 1
    /\ HasRows(sq_input[MaxInputs - 1])
    /\ HasRows(sq_input[MaxInputs])
    /\ Block_rows(Last(sq_returned)) =
          Block_rows(sq_input[MaxInputs - 1]) + Block_rows(sq_input[MaxInputs])

\* the rows of each block of a sequence
RowsOf(blocks) == [k \in 1..Len(blocks) |-> Block_rows(blocks[k])]

\* C17: SquashingTransform with a row minimum R > 0, no byte minimum and
\* every input block smaller than R rows: a call returns a block with rows
\* exactly when the rows received since the last returned block reach R with
\* it, and that block holds all of those rows; the end-of-stream call returns
\* what remains.  For blocks of 400, 400, 400 and 300 rows and R = 1000 the
\* only blocks with rows returned are one of 1200 rows by the third call and
\* one of 300 rows by the end-of-stream call.
C17_FlushWhenRowsReachMinimum ==
    (/\ min_block_size_rows > 0
     /\ min_block_size_bytes = 0
     /\ \A k \in 1..Len(sq_input) : Block_rows(sq_input[k]) < min_block_size_rows)
    => /\ \A k \in 1..Len(sq_input) :
            LET reached == Len(NotYetReturned(k, 1)) >= min_block_size_rows
                all == \A c \in 1..NumColumns :
                           ColumnVals(sq_returned[k], c) = NotYetReturned(k, c)
            IN  IF Block_bool(sq_input[k])
                THEN /\ HasRows(sq_returned[k]) <=> reached
                     /\ HasRows(sq_returned[k]) => all
                ELSE all
       /\ (/\ min_block_size_rows = 1000
           /\ RowsOf(sq_input) = <<400, 400, 400, 300, 0>>)
          => RowsOf(sq_returned) = <<0, 0, 1200, 0, 300>>

\* the worked example was run to its end
C17_Witness ==
    /\ min_block_size_rows = 1000
    /\ min_block_size_bytes = 0
    /\ RowsOf(sq_input) = <<400, 400, 400, 300, 0>>
    /\ Len(sq_returned) = 5
    /\ Block_rows(sq_returned[3]) = 1200

\* both minimums are zero: squashing is disabled
PassThrough == min_block_size_rows = 0 /\ min_block_size_bytes = 0

\* C12: SquashingTransform with both minimums zero: every call with a block
\* that is not the end-of-stream block returns that very block, and the
\* accumulated block is empty after every call.
C12_EagerPassThrough ==
    PassThrough =>
        /\ accumulated_block = EmptyBlock
        /\ \A k \in 1..Len(sq_input) :
              Block_bool(sq_input[k]) => sq_returned[k] = sq_input[k]

\* three blocks, one of them without rows, went through with both minimums
\* zero
C12_Witness ==
    /\ PassThrough
    /\ Len(sq_returned) = MaxInputs
    /\ \A k \in 1..Len(sq_input) : Block_bool(sq_input[k])
    /\ \E k \in 1..Len(sq_input) : HasRows(sq_input[k])
    /\ \E k \in 1..Len(sq_input) : ~HasRows(sq_input[k])

(* ---------------------- further claims on the balancer ----------------- *)
\* the chunk or block the balancer keeps for the input block of a call
Kept(input_block) ==
    IF variant = "Chunk" THEN Chunk_clone(InputChunk(input_block)) ELSE input_block

\* isDataLeft() of the balancer in use
isDataLeft ==
    IF variant = "Chunk" THEN BalanceTransform_isDataLeft
    ELSE BalanceBlockTransform_isDataLeft

\* C13: the balancer with both minimums zero: every returned call with a
\* block that is not the end-of-stream block returned a chunk to squash that
\* carries exactly that block, and isDataLeft() is false after every call.
C13_LazyPassThrough ==
    PassThrough =>
        /\ ~InCall => ~isDataLeft
        /\ \A k \in 1..Len(bal_returned) :
              Block_bool(bal_input[k])
                  => /\ Chunk_hasChunkInfo(bal_returned[k])
                     /\ bal_returned[k].info.list = <<Kept(bal_input[k])>>

\* two blocks with rows were handed off one by one with both minimums zero
C13_Witness ==
    /\ PassThrough
    /\ ~InCall
    /\ Len(bal_returned) >= 2
    /\ \A k \in 1..2 : HasRows(bal_input[k])


\* C14: drain completeness: isDataLeft() is true exactly when the balancer
\* holds chunks or blocks, and it is false once a call with the end-of-stream
\* block has returned, whatever calls came before.
C14_DrainComplete ==
    /\ isDataLeft <=> Len(Pending) > 0
    /\ BalancerDone => ~isDataLeft

\* the end-of-stream block came while two blocks were held and the call
\* returned them
C14_Witness ==
    /\ BalancerDone
    /\ Chunk_hasChunkInfo(Last(bal_returned))
    /\ Len(Last(bal_returned).info.list) = 2


(* -------------------------- the threshold policy ----------------------- *)
\* the row and byte counts the three isEnoughSize are compared on
SizeArguments == (0..(MaxMinRows + 1)) \X (0..(MaxMinBytes + 1))

\* C15: for the minimums of the run and every rows and bytes, each of the
\* three isEnoughSize(rows, bytes) is true exactly when both minimums are
\* zero, or the row minimum is not zero and reached, or the byte minimum is
\* not zero and reached; so the three return the same value.
C15_ThresholdPolicy ==
    \A a \in SizeArguments :
        LET policy == \/ min_block_size_rows = 0 /\ min_block_size_bytes = 0
                      \/ min_block_size_rows # 0 /\ a[1] >= min_block_size_rows
                      \/ min_block_size_bytes # 0 /\ a[2] >= min_block_size_bytes
        IN  /\ SquashingTransform_isEnoughSize(a[1], a[2]) <=> policy
            /\ BalanceTransform_isEnoughSize(a[1], a[2]) <=> policy
            /\ BalanceBlockTransform_isEnoughSize(a[1], a[2]) <=> policy

\* with both minimums non-zero the balancer handed off chunks whose rows are
\* below the row minimum and whose bytes reach the byte minimum
C15_Witness ==
    /\ min_block_size_rows # 0
    /\ min_block_size_bytes # 0
    /\ \E k \in 1..Len(bal_returned) :
          /\ Block_bool(bal_input[k])
          /\ Chunk_hasChunkInfo(bal_returned[k])
          /\ MarkerRows(bal_returned[k]) < min_block_size_rows
          /\ MarkerBytes(bal_returned[k]) >= min_block_size_bytes


(* --------------------- claims on the squashing stage ------------------- *)
\* the values of column c of a chunk or block carried by a chunk to squash
RawVals(raw, c) ==
    IF variant = "Chunk" THEN raw.columns[c].vals ELSE ColumnVals(raw, c)

\* C18: the squashing stage given a chunk to squash returns, in every
\* column, the values of the carried chunks (or blocks) concatenated in the
\* order of the list, and no other value.
C18_SquashedInListOrder ==
    \A k \in 1..Len(nsq_returned) :
        Chunk_hasChunkInfo(bal_returned[k])
            => /\ Block_columns(nsq_returned[k]) = NumColumns
               /\ \A c \in 1..NumColumns :
                      ColumnVals(nsq_returned[k], c) =
                          Flatten([i \in 1..Len(bal_returned[k].info.list) |->
                                      RawVals(bal_returned[k].info.list[i], c)])

\* a chunk to squash that carries two chunks with rows was squashed after
\* an earlier one
C18_Witness ==
    \E k \in 2..Len(nsq_returned) :
        /\ Chunk_hasChunkInfo(bal_returned[k])
        /\ Len(bal_returned[k].info.list) = 2
        /\ \A i \in 1..2 : Len(RawVals(bal_returned[k].info.list[i], 1)) > 0
        /\ \E j \in 1..(k - 1) :
              Chunk_hasChunkInfo(bal_returned[j]) /\ HasRows(nsq_returned[j])


(* ----------------------- claims on malformed blocks -------------------- *)
\* C19 (as claimed): SquashingTransform: every call with a block that has
\* columns, not all of them with the same number of values, throws the
\* sizes-of-columns-mismatch exception before anything is decided for the
\* block: the accumulated block is as before the call.
C19_RaggedBlockThrows ==
    \A k \in 1..Len(sq_input) :
        (Block_bool(sq_input[k]) /\ Ragged(sq_input[k]))
            => /\ sq_outcome[k] = "thrown"
               /\ k = Len(sq_input) => accumulated_block = AccumulatedBefore(k)

\* C20 (as claimed): SquashingTransform: a call that appends a block whose
\* number of columns differs from that of the accumulated block, which has
\* columns, fails: it neither returns nor changes the accumulated block.
C20_ColumnCountMismatchFails ==
    \A k \in 1..Len(sq_input) :
        (/\ SquashingTransform_append_reachesAssert(AccumulatedBefore(k), sq_input[k])
         /\ Block_columns(sq_input[k]) # Block_columns(AccumulatedBefore(k)))
            => /\ sq_outcome[k] # "returned"
               /\ k = Len(sq_input) => accumulated_block = AccumulatedBefore(k)


(* ------------------------- blocking and buffers ------------------------ *)
\* the running call of the balancer is held by the memory wait
Blocked ==
    /\ InCall
    /\ IF variant = "Chunk"
       THEN ~BalanceTransform_memoryAvailable(PendingBytes, hard_limit, usage)
       ELSE ~BalanceBlockTransform_memoryAvailable(PendingBytes, hard_limit, usage)

\* C21: only the balancer waits for memory: whatever the hard limit and the
\* tracked amount, a call of the squashing stage on the chunk it is given
\* goes through in one step, and so does a call of SquashingTransform::add on
\* any block while the memory wait holds the balancer.
C21_SquashersNeverWait ==
    /\ Len(nsq_returned) < Len(bal_returned)
          => ENABLED (NewSquashingTransform_add \/ NewSquashingBlockTransform_add)
    /\ Blocked => \A b \in NextBlocks(sq_input) : ENABLED SquashingTransform_add(b)

\* the squashing stage has work while the balancer is held by the memory
\* wait, and has squashed a chunk before
C21_Witness ==
    /\ Blocked
    /\ hard_limit # 0
    /\ Len(nsq_returned) >= 1
    /\ Len(nsq_returned) < Len(bal_returned)


\* C22 (as claimed): between the calls of SquashingTransform::add the
\* accumulated block is empty or does not satisfy isEnoughSize.
C22_BufferBelowThreshold ==
    accumulated_block = EmptyBlock \/ ~BlockMeetsThreshold(accumulated_block)

\* C22 (amended): between the calls the accumulated block is empty, or does
\* not satisfy isEnoughSize, or is the block of the last call, enough on its
\* own, put in the place of the non-empty accumulated block that call
\* returned.
C22_BufferBelowThresholdUnlessReplaced ==
    \/ accumulated_block = EmptyBlock
    \/ ~BlockMeetsThreshold(accumulated_block)
    \/ /\ accumulated_block = Last(sq_input)
       /\ Block_bool(AccumulatedBefore(Len(sq_input)))
       /\ Last(sq_returned) = AccumulatedBefore(Len(sq_input))

\* a block that is enough took the place of accumulated rows, and a later
\* call left a buffer below the threshold again
C22_Witness ==
    /\ Len(sq_input) = MaxInputs
    /\ BlockMeetsThreshold(sq_input[MaxInputs - 1])
    /\ HasRows(sq_returned[MaxInputs - 1])
    /\ ~BlockMeetsThreshold(sq_returned[MaxInputs - 1])
    /\ AccumulatedBefore(MaxInputs) = sq_input[MaxInputs - 1]
    /\ HasRows(accumulated_block)
    /\ ~BlockMeetsThreshold(accumulated_block)


PendingRows ==
    IF variant = "Chunk"
    THEN ChunksRows(chunks_to_merge_vec)
    ELSE BlocksRows(blocks_to_merge_vec)

\* C23: after every call of the balancer's add has returned, the vector of
\* chunks (or blocks) is empty or its summed rows and bytes do not satisfy
\* isEnoughSize.
C23_PendingBelowThreshold ==
    ~InCall => Pending = <<>> \/ ~MeetsThreshold(PendingRows, PendingBytes)

\* two blocks with rows are held between calls with a non-zero minimum
C23_Witness ==
    /\ ~InCall
    /\ ~PassThrough
    /\ Len(bal_returned) = 2
    /\ Len(Pending) = 2
    /\ \A i \in 1..2 : HasRows(bal_input[Len(bal_input) - 2 + i])


(* ------------------------- the two-stage pipeline ---------------------- *)
\* C24: when everything the balancer returns, chunks to squash and other
\* chunks alike, up to the result of the end-of-stream call, is passed in
\* order to one squashing stage, every value of the input is in exactly one
\* block returned by the stage, in the order of the input; the chunks or
\* blocks of a chunk to squash are all in the block returned for it, and a
\* chunk that is not a chunk to squash gives no rows.
C24_ExactlyOnceThroughPipeline ==
    PipelineDone =>
        /\ \A c \in 1..NumColumns :
              ConcatColumn(nsq_returned, c) = ConcatColumn(bal_input, c)
        /\ \A k \in 1..Len(nsq_returned) :
              Block_rows(nsq_returned[k]) = SquashRows(bal_returned[k])

\* a finished pipeline in which a chunk to squash was followed by a chunk
\* with rows that is not one, and by a second chunk to squash with its rows
C24_Witness ==
    /\ PipelineDone
    /\ \E k \in 2..(Len(bal_returned) - 1) :
          /\ Chunk_hasChunkInfo(bal_returned[k - 1])
          /\ HasRows(nsq_returned[k - 1])
          /\ ~Chunk_hasChunkInfo(bal_returned[k])
          /\ bal_returned[k].num_rows > 0
          /\ Chunk_hasChunkInfo(bal_returned[k + 1])
          /\ Block_rows(nsq_returned[k + 1]) > bal_returned[k].num_rows


\* a call of the balancer's add with a block with columns returns
Returns == InCall /\ bal_pc' = "idle"

\* C25: when the call of add with a block with columns returns and the
\* vector, the block included, does not satisfy isEnoughSize, it returns the
\* chunk of the incoming block itself (its columns and rows, no info), and
\* the block stays the last element of the vector.
C25_NotReadyReturnsInput ==
    [][(Returns /\ ~MeetsThreshold(PendingRows, PendingBytes))
          => /\ Last(bal_returned') = InputChunk(Last(bal_input))
             /\ ~Chunk_hasChunkInfo(Last(bal_returned'))
             /\ Last(bal_returned').num_rows = Block_rows(Last(bal_input))
             /\ Pending' # <<>>
             /\ Last(Pending') = Kept(Last(bal_input))]_vars

\* a block with rows was returned as it came and is the last one held
C25_Witness ==
    /\ ~InCall
    /\ bal_returned # <<>>
    /\ Len(bal_returned) = Len(bal_input)
    /\ ~Chunk_hasChunkInfo(Last(bal_returned))
    /\ Last(bal_returned).num_rows > 0
    /\ Len(Pending) = 2
    /\ Last(Pending) = Kept(Last(bal_input))


\* this step is a call of the balancer's add with the end-of-stream block
EndOfStreamCall == Len(bal_input') = Len(bal_input) + 1 /\ ~Block_bool(Last(bal_input'))

\* C26: the call of the balancer's add with the end-of-stream block returns,
\* when the vector is not empty, a chunk to squash whose list is exactly the
\* vector, in the order of arrival, and clears the vector; when the vector is
\* empty it returns an empty chunk without info.
C26_EndOfStreamHandsOffPending ==
    [][EndOfStreamCall
          => /\ Len(bal_returned') = Len(bal_returned) + 1
             /\ Pending' = <<>>
             /\ IF Pending = <<>>
                THEN Last(bal_returned') = EmptyChunk
                ELSE /\ Chunk_hasChunkInfo(Last(bal_returned'))
                     /\ Last(bal_returned').info.list = Pending
                     /\ Pending = [i \in 1..Len(Pending) |->
                           Kept(bal_input[Len(bal_input) - Len(Pending) + i])]]_vars

\* the end-of-stream call returned three held blocks, the first and the last
\* with rows
C26_Witness ==
    /\ BalancerDone
    /\ Chunk_hasChunkInfo(Last(bal_returned))
    /\ Len(Last(bal_returned).info.list) = MaxInputs
    /\ HasRows(bal_input[1])
    /\ HasRows(bal_input[MaxInputs])


(* --------------------- what SquashingTransform returns ----------------- *)
\* the k-th call appended its block and left the buffer below the threshold
NotReady(k) ==
    /\ SquashingTransform_append_reachesAssert(AccumulatedBefore(k), sq_input[k])
       \/ (/\ Block_bool(sq_input[k])
           /\ ~BlockMeetsThreshold(sq_input[k])
           /\ AccumulatedBefore(k) = EmptyBlock)
    /\ Block_bool(AccumulatedBefore(k + 1))
    /\ ~BlockMeetsThreshold(AccumulatedBefore(k + 1))

\* the k-th call passed the end-of-stream block with nothing accumulated
EndOfStreamOnEmpty(k) ==
    ~Block_bool(sq_input[k]) /\ AccumulatedBefore(k) = EmptyBlock

\* C27 (as claimed): a call of SquashingTransform::add that appends and
\* leaves the buffer below the threshold keeps the appended rows in the
\* buffer and returns a "not ready" result that differs from the empty block
\* a call with the end-of-stream block returns on an empty buffer.
C27_NotReadyDistinguishable ==
    \A j \in 1..Len(sq_returned) :
        NotReady(j)
            => /\ \A c \in 1..NumColumns :
                      ColumnVals(AccumulatedBefore(j + 1), c) =
                          ColumnVals(AccumulatedBefore(j), c) \o ColumnVals(sq_input[j], c)
               /\ \A k \in 1..Len(sq_returned) :
                      EndOfStreamOnEmpty(k) => sq_returned[j] # sq_returned[k]


\* a call of add of the squashing stage returns in this step
SquashCall == Len(nsq_returned') = Len(nsq_returned) + 1

\* the values of column c of a chunk
ChunkVals(chunk, c) ==
    IF c \in 1..Len(chunk.columns) THEN chunk.columns[c].vals ELSE <<>>

\* no value of column c of the chunk is in the block
NoneIn(chunk, block, c) ==
    \A i \in 1..Len(ChunkVals(chunk, c)) :
        \A j \in 1..Len(ColumnVals(block, c)) :
            ChunkVals(chunk, c)[i] # ColumnVals(block, c)[j]

\* C28: a call of the squashing stage on a chunk without info returns the
\* accumulated block as it was before the call and leaves the buffer empty;
\* the rows of that chunk are in no block the stage returns for a chunk
\* without info or a chunk to squash.
C28_ChunkWithoutInfoFlushes ==
    [][(SquashCall /\ ~Chunk_hasChunkInfo(NextChunk))
          => /\ Last(nsq_outcome') = "returned"
             /\ Last(nsq_returned') = nsq_accumulated_block
             /\ nsq_accumulated_block' = EmptyBlock
             /\ \A k \in 1..Len(nsq_returned') :
                    (\/ ~Chunk_hasChunkInfo(bal_returned[k])
                     \/ bal_returned[k].info.kind =
                            (IF variant = "Chunk" THEN "ChunksToSquash"
                                                  ELSE "BlocksToSquash"))
                        => \A c \in 1..NumColumns :
                               NoneIn(NextChunk, nsq_returned'[k], c)]_vars

\* a chunk of rows without info has been passed, and a chunk to squash
\* after it gave a block of rows
C28_Witness ==
    \E k \in 1..Len(nsq_returned) :
        /\ ~Chunk_hasChunkInfo(bal_returned[k])
        /\ bal_returned[k].num_rows > 0
        /\ nsq_outcome[k] = "returned"
        /\ \E j \in (k + 1)..Len(nsq_returned) :
               /\ Chunk_hasChunkInfo(bal_returned[j])
               /\ Block_rows(nsq_returned[j]) > 0
               /\ getInfoFromChunk(bal_returned[j]) # nullptr
                  \/ getInfoFromChunkBlock(bal_returned[j]) # nullptr


\* the chunk of call k carries an info that is not the chunk to squash the
\* stage casts to
InfoOfAnotherKind(k) ==
    /\ Chunk_hasChunkInfo(bal_returned[k])
    /\ IF variant = "Chunk"
       THEN getInfoFromChunk(bal_returned[k]) = nullptr
       ELSE getInfoFromChunkBlock(bal_returned[k]) = nullptr

\* C29: a call of the squashing stage on a chunk whose info is of another
\* kind than its chunk to squash returns, without failing, the accumulated
\* data (the buffer is empty between calls, so the empty block) and reads no
\* list of chunks or blocks.
C29_OtherInfoEndsStream ==
    \A k \in 1..Len(nsq_returned) :
        InfoOfAnotherKind(k)
            => /\ nsq_outcome[k] = "returned"
               /\ nsq_returned[k] = EmptyBlock


\* the rows of the list of a chunk to squash
ListRows(chunk) ==
    IF chunk.info.kind = "ChunksToSquash"
    THEN ChunksRows(chunk.info.list)
    ELSE BlocksRows(chunk.info.list)

\* C30: between calls of the squashing stage the accumulated block is empty,
\* whatever the minimums and the chunk passed, and the block returned for a
\* chunk to squash has the rows of that chunk's list and no row of an
\* earlier one.
C30_FlushesOnEveryCall ==
    /\ nsq_accumulated_block = EmptyBlock
    /\ \A k \in 1..Len(nsq_returned) :
          (Chunk_hasChunkInfo(bal_returned[k]) /\ ~InfoOfAnotherKind(k))
              => Block_rows(nsq_returned[k]) = ListRows(bal_returned[k])

\* two chunks to squash in a row, each with fewer rows than the minimum,
\* have each been returned as a block of their own
C30_Witness ==
    /\ min_block_size_rows = MaxMinRows
    /\ Len(nsq_returned) >= 2
    /\ nsq_accumulated_block = EmptyBlock
    /\ \E k \in 1..(Len(nsq_returned) - 1) :
          \A j \in {k, k + 1} :
              /\ Chunk_hasChunkInfo(bal_returned[j])
              /\ ~InfoOfAnotherKind(j)
              /\ ListRows(bal_returned[j]) \in 1..(MaxMinRows - 1)
              /\ Block_rows(nsq_returned[j]) = ListRows(bal_returned[j])


\* the chunk is a chunk to squash of the kind of the stage, with nothing in
\* its list
EmptyListToSquash(chunk) ==
    /\ chunk.info.kind = (IF variant = "Chunk" THEN "ChunksToSquash"
                                               ELSE "BlocksToSquash")
    /\ chunk.info.list = <<>>

\* C31: a call of the squashing stage on a chunk to squash whose list is
\* empty returns, without error, the accumulated block as it was before the
\* call (the empty block) and leaves the buffer empty.
C31_EmptyListIsNoOpFlush ==
    [][(SquashCall /\ EmptyListToSquash(NextChunk))
          => /\ Last(nsq_outcome') = "returned"
             /\ Last(nsq_returned') = nsq_accumulated_block
             /\ Last(nsq_returned') = EmptyBlock
             /\ nsq_accumulated_block' = EmptyBlock]_vars

\* a chunk to squash with an empty list has been passed after one with rows
C31_Witness ==
    \E k \in 2..Len(nsq_returned) :
        /\ EmptyListToSquash(bal_returned[k])
        /\ nsq_outcome[k] = "returned"
        /\ Block_rows(nsq_returned[k - 1]) > 0


\* the step of a call of the balancer's add that passes the first
\* isEnoughSize, clears the vector if it is enough and pushes the input
PushStep == bal_pc \in {"check1", "wait1"} /\ bal_pc' = "check2"

\* C32: when the clear before the push is taken (the vector satisfies
\* isEnoughSize at the first test) the vector is empty, so the push leaves
\* every chunk (or block) that was in the vector in place and adds one.
C32_ClearBeforePushDiscardsNothing ==
    [][PushStep
          => /\ MeetsThreshold(PendingRows, PendingBytes) => Pending = <<>>
             /\ Len(Pending') = Len(Pending) + 1
             /\ SubSeq(Pending', 1, Len(Pending)) = Pending]_vars

\* the clear has just been taken in a call that is not the first (with both
\* minimums zero every first test succeeds) and the block pushed has rows
C32_Witness ==
    /\ bal_pc = "check2"
    /\ PassThrough
    /\ Len(bal_returned) >= 1
    /\ Len(Pending) = 1
    /\ PendingRows > 0


\* a call of SquashingTransform::add returns in this step
EagerCall == Len(sq_input') = Len(sq_input) + 1 /\ Last(sq_outcome') = "returned"

\* the block is not empty and satisfies isEnoughSize
BigEnough(block) == Block_bool(block) /\ BlockMeetsThreshold(block)

\* the call of this step takes the branch "accumulated block is already
\* enough": the incoming block is not the end-of-stream block and not
\* enough, and the accumulated block is enough
AccumulatedEnoughBranch ==
    /\ EagerCall
    /\ Block_bool(Last(sq_input'))
    /\ ~BlockMeetsThreshold(Last(sq_input'))
    /\ BlockMeetsThreshold(accumulated_block)

\* C33: SquashingTransform: a non-empty accumulated block that satisfies
\* isEnoughSize after a call is the very block passed to that call, enough
\* on its own and stored while the block accumulated before it was returned;
\* the branch "accumulated block is already enough" is taken only on such a
\* block (the block of the previous call), returns it as it is and makes the
\* incoming block the accumulated block.
C33_EnoughBufferIsOneBigInput ==
    [][/\ (EagerCall /\ BigEnough(accumulated_block'))
            => /\ accumulated_block' = Last(sq_input')
               /\ BigEnough(Last(sq_input'))
               /\ Block_bool(accumulated_block)
               /\ Last(sq_returned') = accumulated_block
       /\ AccumulatedEnoughBranch
            => /\ Block_bool(accumulated_block)
               /\ accumulated_block = Last(sq_input)
               /\ BigEnough(Last(sq_input))
               /\ Last(sq_returned') = accumulated_block
               /\ accumulated_block' = Last(sq_input')]_vars

\* the branch has been taken by the last call: a big block stored by the
\* call before it has been returned and a small block with rows is the
\* accumulated block
C33_Witness ==
    /\ Len(sq_input) >= 3
    /\ LET k == Len(sq_input)
       IN  /\ HasRows(sq_input[k - 2])
           /\ ~BlockMeetsThreshold(sq_input[k - 2])
           /\ BigEnough(sq_input[k - 1])
           /\ HasRows(sq_input[k])
           /\ ~BlockMeetsThreshold(sq_input[k])
           /\ sq_returned[k - 1] = sq_input[k - 2]
           /\ sq_returned[k] = sq_input[k - 1]
           /\ accumulated_block = sq_input[k]


\* C34: SquashingTransform: a call of add that throws "Sizes of columns
\* doesn't match" because of the block passed to it leaves the accumulated
\* block as it was before the call, and an end-of-stream call right after it
\* returns that block.
C34_ThrowLeavesBufferUnchanged ==
    \A k \in 1..Len(sq_outcome) :
        sq_outcome[k] = "thrown"
            => /\ AccumulatedBefore(k + 1) = AccumulatedBefore(k)
               /\ (k < Len(sq_returned) /\ ~Block_bool(sq_input[k + 1]))
                      => sq_returned[k + 1] = AccumulatedBefore(k)


\* a call of the balancer's add with the end-of-stream block that returns in
\* the step it is made in, without a step of the wait loop
EndOfStreamReturnsAtOnce ==
    /\ BalanceTransform_add(EmptyBlock) \/ BalanceBlockTransform_add(EmptyBlock)
    /\ bal_pc' = "idle"
    /\ Len(bal_returned') = Len(bal_returned) + 1

\* the wait loop would not let a call go on, whatever the bytes it holds
NoMemoryLeft ==
    IF variant = "Chunk"
    THEN ~BalanceTransform_memoryAvailable(0, hard_limit, usage)
    ELSE ~BalanceBlockTransform_memoryAvailable(0, hard_limit, usage)

\* C35: between calls, as long as the stream is not over, a call of the
\* balancer's add with the end-of-stream block can be made and returns at
\* once, whatever the hard limit and the amount of memory in use: it does
\* not go through checkAndWaitMemoryAvailability.
C35_EndOfStreamNeverWaits ==
    (~InCall /\ ~Finished(bal_input)) => ENABLED EndOfStreamReturnsAtOnce

\* the end-of-stream block has been passed and has returned a chunk to
\* squash while the wait loop would hold any other call
C35_Witness ==
    /\ Finished(bal_input)
    /\ ~InCall
    /\ NoMemoryLeft
    /\ Chunk_hasChunkInfo(Last(bal_returned))
    /\ Len(bal_returned) = Len(bal_input)


\* calls of the balancer's add made so far with a block that is not the
\* end-of-stream block: each of them comes to isEnoughSize(vector), whose
\* checkAndWaitMemoryAvailability starts with memory_tracker->getHardLimit()
CallsWithBlock == {k \in 1..Len(bal_input) : Chunk_bool(InputChunk(bal_input[k]))}

\* C36: a balancer whose constructor found no memory tracker never reads
\* through memory_tracker: none of its calls is killed, and it has made no
\* call that comes to checkAndWaitMemoryAvailability and goes past its first
\* line.
C36_UnsetTrackerNeverRead ==
    memory_tracker = "unset"
        => /\ bal_pc # "crashed"
           /\ \A k \in CallsWithBlock : k = Len(bal_input) /\ bal_pc = "check1"


\* C37: every chunk to squash the balancer returns, for the end-of-stream
\* block or for a vector that has become enough, carries at least one chunk
\* (or block) in its list and has itself no rows.
C37_NoEmptyChunkToSquash ==
    \A k \in 1..Len(bal_returned) :
        Chunk_hasChunkInfo(bal_returned[k])
            => /\ Len(bal_returned[k].info.list) >= 1
               /\ bal_returned[k].num_rows = 0
               /\ \A c \in 1..Len(bal_returned[k].columns) :
                      bal_returned[k].columns[c].vals = <<>>

\* a chunk to squash has been returned for a vector that became enough and
\* another for the end-of-stream block
C37_Witness ==
    /\ \E k \in 1..Len(bal_returned) :
          Block_bool(bal_input[k]) /\ Chunk_hasChunkInfo(bal_returned[k])
    /\ \E k \in 1..Len(bal_returned) :
          ~Block_bool(bal_input[k]) /\ Chunk_hasChunkInfo(bal_returned[k])


\* the kind of result a call of the balancer's add has returned
ResultKind(chunk) ==
    IF Chunk_hasChunkInfo(chunk) THEN "marker"
    ELSE IF Chunk_bool(chunk) THEN "input"
    ELSE "empty"

\* the values a result carries, column by column: those of each chunk or
\* block of the list for a chunk to squash, its own otherwise
ResultValues(chunk) ==
    IF chunk.info.kind = "ChunksToSquash"
    THEN [k \in 1..Len(chunk.info.list) |->
            [c \in 1..Len(chunk.info.list[k].columns) |->
                chunk.info.list[k].columns[c].vals]]
    ELSE IF chunk.info.kind = "BlocksToSquash"
    THEN [k \in 1..Len(chunk.info.list) |->
            [c \in 1..Len(chunk.info.list[k]) |-> chunk.info.list[k][c].column.vals]]
    ELSE <<[c \in 1..Len(chunk.columns) |-> chunk.columns[c].vals]>>

\* C38: for the same minimums and the same blocks passed, a BalanceTransform
\* and a BalanceBlockTransform return call by call the same kind of result
\* (empty chunk, input chunk, chunk to squash) carrying the same values in
\* the same order, and isDataLeft() is the same after every call; the
\* balancer at hand has returned just that, however long its calls waited
\* for memory.
C38_VariantsReturnTheSame ==
    ~InCall =>
        LET ofChunks == BalanceTransform_run(<<>>, <<>>, <<>>, bal_input, 1)
            ofBlocks == BalanceBlockTransform_run(<<>>, <<>>, bal_input, 1)
        IN  /\ Len(ofChunks.returned) = Len(ofBlocks.returned)
            /\ \A k \in 1..Len(ofChunks.returned) :
                  /\ ResultKind(ofChunks.returned[k]) = ResultKind(ofBlocks.returned[k])
                  /\ ResultValues(ofChunks.returned[k]) =
                         ResultValues(ofBlocks.returned[k])
            /\ (ofChunks.vec # <<>>) = (ofBlocks.vec # <<>>)
            /\ isDataLeft = (ofChunks.vec # <<>>)
            /\ IF variant = "Chunk"
               THEN bal_returned = ofChunks.returned /\ Pending = ofChunks.vec
               ELSE bal_returned = ofBlocks.returned /\ Pending = ofBlocks.vec

\* the stream is over after calls that returned the input chunk, a chunk to
\* squash of two blocks and, with data left, a chunk to squash for the
\* end-of-stream block
C38_Witness ==
    /\ ~InCall
    /\ Finished(bal_input)
    /\ \E k \in 1..Len(bal_returned) : ResultKind(bal_returned[k]) = "input"
    /\ \E k \in 1..Len(bal_returned) :
          /\ ResultKind(bal_returned[k]) = "marker"
          /\ Len(bal_returned[k].info.list) = 2
          /\ Block_bool(bal_input[k])
    /\ ResultKind(Last(bal_returned)) = "marker"


\* the block returned by the k-th call is none of the blocks passed so far:
\* it has been made by appending
Merged(k) ==
    /\ Block_bool(sq_returned[k])
    /\ \A j \in 1..k : sq_returned[k] # sq_input[j]

\* C39: SquashingTransform with a row minimum R > 0: a returned block made
\* by appending input blocks has fewer than 2 * R rows; a returned block of
\* 2 * R rows or more is one of the input blocks, as it was passed.
C39_MergedBelowTwiceMinimum ==
    min_block_size_rows > 0
        => \A k \in 1..Len(sq_returned) :
              /\ Merged(k) => Block_rows(sq_returned[k]) < 2 * min_block_size_rows
              /\ Block_rows(sq_returned[k]) >= 2 * min_block_size_rows
                    => \E j \in 1..k : sq_returned[k] = sq_input[j]

\* a block appended from two blocks of MaxRows rows, each one row short of
\* the minimum, has been returned: two rows less than twice the minimum
C39_Witness ==
    /\ min_block_size_rows = MaxRows + 1
    /\ \E k \in 1..Len(sq_returned) :
          /\ Merged(k)
          /\ Block_rows(sq_returned[k]) = 2 * min_block_size_rows - 2

====
